---- MODULE Spec2Model ----
(***************************************************************************)
(* ccache.c: the compile front-end of the compiler cache.                  *)
(*                                                                         *)
(* The model follows ccache() and the functions it calls: one run is one   *)
(* process; runs share the cache directory.  The manifest container        *)
(* (manifest.c) and the file helpers (util.c: copy_file, move_file,        *)
(* move_uncompressed_file) are collaborators of ccache.c and are modelled  *)
(* by their contract.                                                      *)
(***************************************************************************)
EXTENDS Integers, Sequences, FiniteSets, TLC

(* ------------------------------ bounds -------------------------------- *)
\* number of content versions the one include file goes through
MaxVer == 1
\* the clock (whole seconds, as time(NULL)) runs from 0 to MaxTime
MaxTime == 1
\* files the external cleanup collaborator removes in one behaviour
MaxCleanups == 1
\* invocations of the tool in one behaviour
MaxRuns == 2
\* how many times the environment acts on a sequence of runs
MaxEvents == 1

\* the runs (processes of the tool) that share the cache directory
Procs == {1, 2}
Vers == 0..MaxVer
NoKey == 0

(* --------------------------- the file system -------------------------- *)
\* struct file_hash of the preprocessor-mode hash: the cpp output is
\* determined by the version of the include file the preprocessor read.
ObjKey(ver) == ver + 1
Keys == {ObjKey(v) : v \in Vers}

\* a file: does it exist, is it written to the end, its bytes, and (history)
\* the run that wrote it
Absent == [ex |-> FALSE, full |-> FALSE, data |-> <<>>, by |-> 0]
File(a, d) == [ex |-> TRUE, full |-> TRUE, data |-> d, by |-> a]
Partial(a, d) == [ex |-> TRUE, full |-> FALSE, data |-> d, by |-> a]

\* what the real compiler and the preprocessor produce
ObjData(ver) == << [t |-> "obj", v |-> ver] >>
DepData(ver) == << [t |-> "dep", v |-> ver] >>
\* version 1 of the include file makes the preprocessor print a warning
CppErrData(ver) == IF ver = 1 THEN << [t |-> "cppwarn", v |-> ver] >> ELSE <<>>
CcErrData(diag, ver) == IF diag THEN << [t |-> "ccdiag", v |-> ver] >> ELSE <<>>

cached_obj(k) == <<"cache", k, "o">>
cached_stderr(k) == <<"cache", k, "stderr">>
cached_dep(k) == <<"cache", k, "d">>
CacheNames == {<<"cache", k, s>> : k \in Keys, s \in {"o", "stderr", "d"}}

tmp_stdout(p) == <<"tmp", p, "stdout">>
tmp_stderr(p) == <<"tmp", p, "stderr">>
\* a to_cache whose temporary object name is the same in every process
tmp_obj_shared(p) == <<"tmp", 1, "obj">>
tmp_obj(p) == <<"tmp", p, "obj">>
path_stdout(p) == <<"tmp", p, "i">>
path_stderr(p) == <<"tmp", p, "cpperr">>
TmpNames == {<<"tmp", p, s>> : p \in Procs, s \in {"stdout", "stderr", "obj", "i", "cpperr"}}

output_obj(p) == <<"out", p, "o">>
output_dep(p) == <<"out", p, "d">>
OutNames == {<<"out", p, s>> : p \in Procs, s \in {"o", "d"}}

Names == CacheNames \cup TmpNames \cup OutNames

\* the file the user names as the input of the compilation, and all files
input_file == <<"in", 0, "src">>
Files == Names \cup {input_file}

\* the input file as the user left it
SourceData == << [t |-> "src", v |-> 0] >>
SourceFile == File(0, SourceData)


InputFile == "hello.c"
IncludeFile == "hello.h"

(* ------------------------------- state -------------------------------- *)
VARIABLES
  cfg,        \* the environment and the classified invocation, one per behaviour
  conc,       \* may runs overlap in time
  prev,       \* history: what the last finished run left, while nothing changed it
  fs,         \* the files: cache entries, temporaries, outputs
  manifest,   \* the one manifest file of this compilation
  hdr,        \* the include file: content version and mtime
  now,        \* time(NULL)
  cleanups,   \* files removed so far by the cleanup collaborator
  runs,       \* invocations started so far
  run,        \* per run: the globals and locals of ccache()
  cmd,        \* the invocation looked at token by token, and a variation of it
  lev,        \* the levels setting and a cache path derived under it
  scn         \* process_preprocessed_file at work on one preprocessed file

vars == << cfg, conc, prev, fs, manifest, hdr, now, cleanups, runs, run, cmd, lev, scn >>

Flags == {"unsupported", "readonly", "recache", "gendeps", "nodirect", "sloppy_mtime",
          "src_time", "cpp2", "devnull", "noinc", "unify"}

\* the settings a behaviour is drawn from
AllConfigs == [Flags -> BOOLEAN]

\* the paths the line directives of the preprocessed output name, in file
\* order: a bracketed pseudo file, the input file itself and, unless the
\* source includes nothing, the include file
ScanPaths ==
  << [name |-> "<built-in>", bracketed |-> TRUE],
     [name |-> InputFile, bracketed |-> FALSE] >>
    \o (IF cfg["noinc"] THEN << >>
                        ELSE << [name |-> IncludeFile, bracketed |-> FALSE] >>)

NoPrev == [stored |-> FALSE, populated |-> FALSE, out |-> Absent]

NoManifest == [ex |-> FALSE, full |-> FALSE, entries |-> {}, by |-> 0]

\* static globals of ccache.c before ccache() runs
InitRun ==
  [ pc |-> "idle", mode |-> "none",
    enable_direct |-> TRUE, put_object_in_manifest |-> FALSE,
    object_hash_from_manifest |-> NoKey, cached_obj_hash |-> NoKey,
    manifest_path |-> FALSE, inc_alloc |-> FALSE, included_files |-> {},
    time_of_compilation |-> 0, cppver |-> 0,
    i_tmpfile |-> FALSE, cpp_stderr |-> FALSE, direct_i_file |-> FALSE,
    status |-> 0, cc_stdout |-> FALSE, cc_obj |-> "none",
    fc_put |-> FALSE, mfbuf |-> {}, fd2 |-> <<>>, exit |-> "none", code |-> -1,
    wrote |-> {}, removed |-> {}, steps |-> <<>>, notes |-> {} ]

InitCommon ==
  /\ prev = NoPrev
  /\ fs = [n \in Files |-> IF n = input_file THEN SourceFile ELSE Absent]
  /\ manifest = NoManifest
  /\ hdr = [ver |-> 0, mtime |-> -1]
  /\ now = 0
  /\ cleanups = 0
  /\ runs = 0
  /\ run = [p \in Procs |-> InitRun]


(* ------------------------------ helpers ------------------------------- *)
ManifestName == <<"cache", NoKey, "manifest">>

Unlink(f, S) == [n \in DOMAIN f |-> IF n \in S THEN Absent ELSE f[n]]
Put(f, n, file) == [f EXCEPT ![n] = file]

\* the final cache names that exist in (f, m)
Existing(f, m) ==
  {n \in CacheNames : f[n].ex} \cup (IF m.ex THEN {ManifestName} ELSE {})

HasStep(r, what) == \E i \in 1..Len(r.steps) : r.steps[i][1] = what

\* history: what a run that ends leaves behind.  stored: it missed, compiled
\* and left the object in the cache; populated: it also left the dependency
\* file, if one is generated, and a manifest entry whose include files are
\* as they are now; out: the output file it produced
Summary(p, r, f, m) ==
  LET k == r.cached_obj_hash
      stored ==
        /\ r.exit = "served"
        /\ HasStep(r, "compile")
        /\ f[cached_obj(k)].ex
      populated ==
        /\ stored
        /\ HasStep(r, "manifest_put")
        /\ m.ex
        /\ [key |-> k, inc |-> r.included_files] \in m.entries
        /\ \A i \in r.included_files : i = <<IncludeFile, hdr.ver>>
        /\ cfg["gendeps"] => f[cached_dep(k)].ex
  IN [stored |-> stored, populated |-> populated,
      out |-> IF stored THEN f[output_obj(p)] ELSE Absent]

\* the final cache names a step from (f0, m0) to (f, m) created or replaced
Written(f0, m0, f, m) ==
  {n \in CacheNames : f[n].ex /\ f[n] # f0[n]}
    \cup (IF m.ex /\ m # m0 THEN {ManifestName} ELSE {})

\* exit() and execv() end the process: its globals are gone, what is left
\* is how it ended and the history of what it did
Exited(r) ==
  [InitRun EXCEPT !.pc = "done", !.exit = r.exit, !.code = r.code,
                  !.status = r.status, !.fd2 = r.fd2,
                  !.steps = r.steps, !.notes = r.notes, !.wrote = r.wrote,
                  !.removed = r.removed]

\* One step of run p: the new globals r, files f and manifest m.  The
\* history fields wrote/removed record which final cache names the step
\* created or replaced, and which it removed.
StepRun(p, r, f, m) ==
  /\ runs' = IF run[p].pc \in {"idle", "done"} THEN runs + 1 ELSE runs
  /\ run' = [run EXCEPT ![p] =
       [(IF r.pc = "done" THEN Exited(r) ELSE r)
          EXCEPT !.wrote = @ \cup Written(fs, manifest, f, m),
                 !.removed = @ \cup (Existing(fs, manifest) \ Existing(f, m))]]
  /\ fs' = f
  /\ manifest' = m
  /\ UNCHANGED << cfg, conc, hdr, now, cleanups, lev, scn >>
  /\ prev' = IF r.pc = "done" THEN Summary(p, r, f, m) ELSE prev

\* a step of a run whose arguments are not looked at token by token
Step(p, r, f, m) == StepRun(p, r, f, m) /\ UNCHANGED cmd

\* history: the identity of the run that process p is executing
Author(p) == IF conc THEN p ELSE runs

\* history: something the claims speak of was the case in the step
Note(r, what) == [r EXCEPT !.notes = @ \cup {<<what, r.mode>>}]
Noted(r, what) == \E n \in r.notes : n[1] = what

\* history: an operation of the step at r.pc failed for a reason outside
\* the tool (permissions, a full disk, a file somebody else removed)
Io(r) == [r EXCEPT !.notes = @ \cup {<<"ioerr", r.pc>>}]

Did(r, what) == [r EXCEPT !.steps = Append(@, <<what, r.mode>>)]

\* failed(): remove the intermediate files this run still refers to, then
\* execv the real compiler with the original arguments
FailedRun(r) ==
  [r EXCEPT !.pc = "done", !.exit = "fallback", !.code = -1,
            !.i_tmpfile = FALSE, !.cpp_stderr = FALSE]

\* i_tmpfile = path_stdout: the input file itself when it is preprocessed
\* already, else the temporary file the preprocessor wrote
i_tmpfile_path(p, r) == IF r.direct_i_file THEN input_file ELSE path_stdout(p)

\* a tool that removes the intermediate file whatever it is
ITmpUnguarded(p, r) == IF r.i_tmpfile THEN {i_tmpfile_path(p, r)} ELSE {}

\* if (i_tmpfile) { if (!direct_i_file) unlink(i_tmpfile); }
ITmp(p, r) ==
  IF r.i_tmpfile /\ ~r.direct_i_file THEN {i_tmpfile_path(p, r)} ELSE {}

FailedFs(p, r, f) ==
  Unlink(f, ITmp(p, r)
            \cup (IF r.cpp_stderr THEN {path_stderr(p)} ELSE {}))
Failed(p, r, f, m) == Step(p, FailedRun(r), FailedFs(p, r, f), m)

\* fatal(): print a message and exit(1)
Fatal(p, r, f, m) ==
  Step(p, [r EXCEPT !.pc = "done", !.exit = "fatal", !.code = 1], f, m)

(* ------------------------------ manifest ------------------------------ *)
\* manifest_get: the object hashes of the entries whose recorded include
\* files all still hash to the recorded value; NoKey (NULL) when none does
ManifestGet(m, h) ==
  LET match == {e \in m.entries :
                  \A i \in e.inc : i = <<IncludeFile, h.ver>>}
  IN IF ~m.ex \/ match = {} THEN {NoKey} ELSE {e.key : e \in match}

\* manifest_put: the entries read (or none for a new manifest) plus the new
\* one, written to a temporary file and renamed over the manifest
ManifestPut(a, entries, key, inc) ==
  [ex |-> TRUE, full |-> TRUE, entries |-> entries \cup {[key |-> key, inc |-> inc]},
   by |-> a]

\* ccache(): CCACHE_UNIFY sets enable_unify; CCACHE_NODIRECT or enable_unify
\* clears enable_direct before process_args runs
DirectFromEnv == ~(cfg["nodirect"] \/ cfg["unify"])

(* ---------------------------- ccache(): start ------------------------- *)
\* ccache() up to the direct attempt: the environment is read, process_args
\* classifies the invocation (accepted or not), the common hash is seeded
Start(p) ==
  /\ runs < MaxRuns
  /\ IF conc THEN run[p].pc = "idle" /\ \A q \in Procs : q < p => run[q].pc # "idle"
             ELSE p = 1 /\ run[p].pc \in {"idle", "done"}
  /\ LET r0 == [InitRun EXCEPT !.enable_direct = DirectFromEnv]
         \* tmp_string() makes the names of this run's temporary files new;
         \* the output files are followed from the start of the run
         f0 == Unlink(fs, {n \in TmpNames \cup OutNames : n[2] = p})
     IN IF cfg["unsupported"]
          THEN Failed(p, r0, f0, manifest)
          ELSE Step(p, [r0 EXCEPT !.pc = IF r0.enable_direct THEN "direct" ELSE "cpp"],
                    f0, manifest)

\* a driver that asks the direct-mode serve to record the result
DirectPutArgSet == TRUE

\* the second argument of from_cache(FROMCACHE_DIRECT_MODE, 0)
DirectPutArg == FALSE

\* a driver that does not ask for the manifest entry after a manifest miss
AddObjectNever == FALSE

\* a calculate_object_hash that returns NULL on a time macro in the source
\* file and leaves direct mode on
DirectAfterFoundTimeKept == TRUE

\* calculate_object_hash, HASH_SOURCE_CODE_FOUND_TIME: "Disabling direct
\* mode", enable_direct = 0, before manifest_path is assigned
DirectAfterFoundTime == FALSE

\* "Add object to manifest later": put_object_in_manifest after the direct
\* attempt got no key
AddObjectLater == TRUE

\* calculate_object_hash(direct_mode = 1) and the driver's reaction to it
DirectAttempt(p) ==
  /\ run[p].pc = "direct"
  /\ LET r0 == Did(run[p], "direct") IN
     \/ \* HASH_SOURCE_CODE_ERROR
        Failed(p, Io(r0), fs, manifest)
     \/ /\ cfg["src_time"]
        /\ Step(p, [Note(r0, "src_time") EXCEPT !.enable_direct = DirectAfterFoundTime,
                              !.put_object_in_manifest = AddObjectLater,
                              !.pc = "cpp"],
                fs, manifest)
     \/ /\ ~cfg["src_time"]
        /\ \E k \in ManifestGet(manifest, hdr) :
             LET r1 == [Did(r0, "manifest_get") EXCEPT !.manifest_path = TRUE] IN
             IF k # NoKey
               THEN Step(p, [r1 EXCEPT !.cached_obj_hash = k, !.mode = "direct",
                                       !.fc_put = DirectPutArg, !.pc = "fc_stat"],
                         fs, manifest)
               ELSE Step(p, [r1 EXCEPT !.put_object_in_manifest = AddObjectLater,
                                       !.pc = "cpp"],
                         fs, manifest)


(* ----------------------------- from_cache ----------------------------- *)
\* a driver that compiles again when the serve after the compilation returns
AfterFromCacheRecompile(p, r, f, m) ==
  CASE r.mode = "direct" ->
         Step(p, [r EXCEPT !.put_object_in_manifest = FALSE,
                           !.object_hash_from_manifest = r.cached_obj_hash,
                           !.pc = "cpp"], f, m)
    [] OTHER -> Step(p, [r EXCEPT !.pc = "compile"], f, m)

\* a from_cache that calls failed() when the file it copies has disappeared
AfterFromCacheGiveUp(p, r, f, m) ==
  CASE <<"enoent", r.mode>> \in r.notes -> Failed(p, r, f, m)
    [] r.mode = "direct" ->
         Step(p, [r EXCEPT !.put_object_in_manifest = FALSE,
                           !.object_hash_from_manifest = r.cached_obj_hash,
                           !.pc = "cpp"], f, m)
    [] r.mode = "cpp" -> Step(p, [r EXCEPT !.pc = "compile"], f, m)
    [] OTHER -> Failed(p, r, f, m)

\* a driver that starts over with the preprocessor when the serve after the
\* compilation returns
AfterFromCacheRetry(p, r, f, m) ==
  CASE r.mode = "direct" ->
         Step(p, [r EXCEPT !.put_object_in_manifest = FALSE,
                           !.object_hash_from_manifest = r.cached_obj_hash,
                           !.pc = "cpp"], f, m)
    [] r.mode = "cpp" -> Step(p, [r EXCEPT !.pc = "compile"], f, m)
    [] OTHER -> Step(p, [r EXCEPT !.pc = "cpp"], f, m)

\* the driver's continuation when from_cache returns instead of exiting
AfterFromCache(p, r, f, m) ==
  CASE r.mode = "direct" ->
         Step(p, [r EXCEPT !.put_object_in_manifest = FALSE,
                           !.object_hash_from_manifest = r.cached_obj_hash,
                           !.pc = "cpp"], f, m)
    [] r.mode = "cpp" -> Step(p, [r EXCEPT !.pc = "compile"], f, m)
    [] OTHER -> Failed(p, r, f, m)

produce_dep_file(r) == cfg["gendeps"] /\ r.mode = "direct"

\* a serve that clears every entry of the cache when a file disappeared
UnlinkWholeCache(k) == CacheNames

\* the files an interrupted serve removes from the cache
UnlinkOnEnoent(k) == {cached_stderr(k), cached_obj(k), cached_dep(k)}

\* a from_cache that gives up before any compilation whatever the
\* environment says
HitsDisabledAlways(r) == r.mode # "compiled"

\* a from_cache that does not look at CCACHE_RECACHE
HitsDisabledNever(r) == FALSE

\* "the user might be disabling cache hits"
HitsDisabled(r) == r.mode # "compiled" /\ cfg["recache"]

\* from_cache: the recache test and the stat() calls
FromCacheStat(p) ==
  /\ run[p].pc = "fc_stat"
  /\ LET k == run[p].cached_obj_hash
         present == fs[cached_obj(k)].ex
                    /\ (produce_dep_file(run[p]) => fs[cached_dep(k)].ex)
         r0 == IF present THEN Note(run[p], "present") ELSE run[p]
         r == Did(r0, "lookup")
     IN IF HitsDisabled(r0)
          THEN AfterFromCache(p, r0, fs, manifest)
        ELSE IF \/ ~fs[cached_obj(k)].ex
                \/ (produce_dep_file(r) /\ ~fs[cached_dep(k)].ex)
          THEN AfterFromCache(p, r, fs, manifest)
          ELSE Step(p, [r EXCEPT !.pc = "fc_copy"], fs, manifest)

\* from_cache: unlink the output and link or copy the object to it
FromCacheCopy(p) ==
  /\ run[p].pc = "fc_copy"
  /\ LET r == run[p]
         k == r.cached_obj_hash
         next == IF produce_dep_file(r) THEN "fc_dep" ELSE "fc_finish"
     IN IF cfg["devnull"]
          THEN Step(p, [r EXCEPT !.pc = next], fs, manifest)
          ELSE \E res \in {"ok", "enoent", "error"} :
                 LET f0 == Unlink(fs, {output_obj(p)}) IN
                 CASE res = "ok" /\ fs[cached_obj(k)].ex ->
                        Step(p, [r EXCEPT !.pc = next],
                             Put(f0, output_obj(p), fs[cached_obj(k)]), manifest)
                   [] res = "ok" /\ ~fs[cached_obj(k)].ex ->
                        AfterFromCache(p, Note(r, "enoent"),
                                       Unlink(f0, UnlinkOnEnoent(k)), manifest)
                   [] res = "enoent" ->
                        AfterFromCache(p, Io(Note(r, "enoent")),
                                       Unlink(f0, UnlinkOnEnoent(k)), manifest)
                   [] OTHER -> Failed(p, Io(r), f0, manifest)

\* from_cache: the same for the dependency file (direct mode only)
FromCacheDep(p) ==
  /\ run[p].pc = "fc_dep"
  /\ LET r == run[p]
         k == r.cached_obj_hash
     IN \E res \in {"ok", "enoent", "error"} :
          LET f0 == Unlink(fs, {output_dep(p)}) IN
          CASE res = "ok" /\ fs[cached_dep(k)].ex ->
                 Step(p, [r EXCEPT !.pc = "fc_finish"],
                      Put(f0, output_dep(p), fs[cached_dep(k)]), manifest)
            [] res = "ok" /\ ~fs[cached_dep(k)].ex ->
                 AfterFromCache(p, Note(r, "enoent"),
                   Unlink(f0, {output_obj(p)} \cup UnlinkOnEnoent(k)), manifest)
            [] res = "enoent" ->
                 AfterFromCache(p, Io(Note(r, "enoent")),
                   Unlink(f0, {output_obj(p)} \cup UnlinkOnEnoent(k)), manifest)
            [] OTHER -> Failed(p, Io(r), f0, manifest)

\* a from_cache that updates the manifest when the include set has members,
\* whatever CCACHE_READONLY says
PutsManifestNonEmpty(r) ==
  r.enable_direct /\ r.fc_put /\ r.included_files # {}

\* does from_cache store the dependency file the preprocessor wrote
StoresDep(r) == cfg["gendeps"] /\ r.mode # "direct"

\* a from_cache that updates the manifest although direct mode was disabled
\* during the run
PutsManifestWhenDisabled(r) ==
  r.fc_put /\ r.inc_alloc /\ ~cfg["readonly"]

\* does from_cache call manifest_put
PutsManifest(r) ==
  /\ r.enable_direct
  /\ r.fc_put
  /\ r.inc_alloc
  /\ ~cfg["readonly"]

\* from_cache after the copy: store the dependency file, remove the
\* intermediate files, send the cached stderr, then manifest_put or exit(0)
FromCacheFinish(p) ==
  /\ run[p].pc = "fc_finish"
  /\ LET r == run[p]
         k == r.cached_obj_hash
     IN \E copied \in IF StoresDep(r) THEN BOOLEAN ELSE {FALSE} :
          LET \* copy_file(output_dep, cached_dep): a failure is only logged
              f0 == IF copied /\ fs[output_dep(p)].ex
                      THEN Put(fs, cached_dep(k), fs[output_dep(p)])
                      ELSE fs
              f1 == FailedFs(p, r, f0)
              err == IF f1[cached_stderr(k)].ex THEN f1[cached_stderr(k)].data
                                                ELSE <<>>
              r0 == IF StoresDep(r) /\ ~(copied /\ fs[output_dep(p)].ex)
                      THEN Io(r) ELSE r
              r1 == [Did(r0, "serve") EXCEPT !.i_tmpfile = FALSE, !.cpp_stderr = FALSE,
                                             !.fd2 = @ \o err]
          IN IF PutsManifest(r)
               THEN Step(p, [r1 EXCEPT !.pc = "mf_put",
                               !.mfbuf = IF manifest.ex THEN manifest.entries ELSE {}],
                         f1, manifest)
               ELSE Step(p, [r1 EXCEPT !.pc = "done", !.exit = "served", !.code = 0],
                         f1, manifest)

\* manifest_put's rename of the rewritten manifest (or its failure, which
\* from_cache only logs), then exit(0)
ManifestWrite(p) ==
  /\ run[p].pc = "mf_put"
  /\ LET Exit0(r) == [Did(r, "manifest_put") EXCEPT !.pc = "done", !.exit = "served",
                                                     !.code = 0, !.mfbuf = {}]
     IN \/ Step(p, Exit0(run[p]), fs,
                ManifestPut(Author(p), run[p].mfbuf, run[p].cached_obj_hash,
                            run[p].included_files))
        \/ Step(p, Exit0(Io(run[p])), fs, manifest)


(* ------------------- get_object_name_from_cpp ------------------------- *)
CppData(ver) == << [t |-> "cpp", v |-> ver] >>

\* the version of the include file an input file that is preprocessed
\* already was made from
InputVer == 0

\* the first half of get_object_name_from_cpp: note the time, run the
\* preprocessor into two temporary files
Preprocess(p) ==
  /\ run[p].pc = "cpp"
  /\ LET r == [Did(run[p], IF run[p].direct_i_file THEN "cpp_skipped" ELSE "cpp")
                  EXCEPT !.time_of_compilation = now] IN
     \E status \in {0, 1} :
       IF r.direct_i_file
         THEN \* the input file is the preprocessed file; status 1 stands
              \* for create_empty_file(path_stderr) failing
              IF status # 0
                THEN Failed(p, Io(r), fs, manifest)
                ELSE Step(p, [r EXCEPT !.cppver = InputVer, !.pc = "scan"],
                          Put(fs, path_stderr(p), File(Author(p), <<>>)),
                          manifest)
       ELSE IF status # 0
         THEN Failed(p, Note(r, "cpperr"),
                     Unlink(fs, {path_stdout(p), path_stderr(p)}), manifest)
         ELSE LET a == Author(p)
                  f0 == Put(Put(fs, path_stdout(p), File(a, CppData(hdr.ver))),
                            path_stderr(p), File(a, CppErrData(hdr.ver)))
                  f1 == IF cfg["gendeps"]
                          THEN Put(f0, output_dep(p), File(a, DepData(hdr.ver)))
                          ELSE f0
              IN Step(p, [r EXCEPT !.cppver = hdr.ver, !.pc = "scan"], f1, manifest)

\* a remember_include_file that lets through a file saved in the second
\* the compilation started
remember_include_file_newer(st, path, toc, readable) ==
  IF path.bracketed \/ path.name = InputFile
       \/ (\E i \in st.included_files : i[1] = path.name)
    THEN st
  ELSE IF ~readable
    THEN [st EXCEPT !.enable_direct = FALSE]
  ELSE IF ~cfg["sloppy_mtime"] /\ hdr.mtime > toc
    THEN [st EXCEPT !.enable_direct = FALSE]
  ELSE [st EXCEPT !.included_files = @ \cup {<<path.name, hdr.ver>>}]

\* a remember_include_file that skips a file it could not hash, or one whose
\* hash reported a time macro, and leaves direct mode on
remember_include_file_ignore(st, path, toc, readable) ==
  IF path.bracketed \/ path.name = InputFile
       \/ (\E i \in st.included_files : i[1] = path.name)
    THEN st
  ELSE IF ~readable
    THEN st
  ELSE IF ~cfg["sloppy_mtime"] /\ hdr.mtime >= toc
    THEN [st EXCEPT !.enable_direct = FALSE]
  ELSE [st EXCEPT !.included_files = @ \cup {<<path.name, hdr.ver>>}]

\* remember_include_file on the scan state st = [enable_direct, included_files];
\* readable: could the file be opened, mapped and hashed without FOUND_TIME
remember_include_file(st, path, toc, readable) ==
  IF path.bracketed \/ path.name = InputFile
       \/ (\E i \in st.included_files : i[1] = path.name)
    THEN st
  ELSE IF ~readable
    THEN [st EXCEPT !.enable_direct = FALSE]
  ELSE IF ~cfg["sloppy_mtime"] /\ hdr.mtime >= toc
    THEN [st EXCEPT !.enable_direct = FALSE]
  ELSE [st EXCEPT !.included_files = @ \cup {<<path.name, hdr.ver>>}]

\* the directive loop of process_preprocessed_file from directive i on
RECURSIVE ScanFrom(_, _, _, _)
ScanFrom(st, i, toc, readable) ==
  IF i > Len(ScanPaths) THEN st
  ELSE ScanFrom(IF st.enable_direct
                  THEN remember_include_file(st, ScanPaths[i], toc, readable)
                  ELSE st,
                i + 1, toc, readable)

\* what opening and hashing the include file can give: the hash, an error,
\* or (when the file gets as far as being hashed) HASH_SOURCE_CODE_FOUND_TIME
HashOutcomes(r) ==
  IF cfg["noinc"] THEN {"ok"} ELSE
  {"ok", "error"}
    \cup (IF r.enable_direct
              /\ (cfg["sloppy_mtime"] \/ hdr.mtime < r.time_of_compilation)
            THEN {"found_time"} ELSE {})

\* a driver that removes the manifest whenever the direct-mode serve returned
StaleManifestAnyMiss(r, key) == r.object_hash_from_manifest # NoKey

\* the manifest gave a key and the preprocessed output hashes to another one
StaleManifest(r, key) ==
  r.object_hash_from_manifest # NoKey /\ r.object_hash_from_manifest # key

\* a driver that keeps the key the manifest gave when there is one
KeyOfManifestKept(r, key) ==
  IF r.object_hash_from_manifest # NoKey THEN r.object_hash_from_manifest ELSE key

\* update_cached_result_globals(object_hash) after the preprocessor-mode
\* calculate_object_hash: the key the cached paths are derived from
KeyAfterCpp(r, key) == key

\* the second half of get_object_name_from_cpp (process_preprocessed_file,
\* hash_file of the preprocessor's stderr), update_cached_result_globals and
\* the driver's comparison with the hash the manifest gave
ScanHash(p) ==
  /\ run[p].pc = "scan"
  /\ LET r == run[p] IN
     \/ \* process_preprocessed_file returned 0
        Failed(p, Io(r), Unlink(fs, {path_stderr(p)}), manifest)
     \/ \* hash_file(path_stderr) failed
        Fatal(p, Io(r), fs, manifest)
     \/ \E res \in HashOutcomes(r) :
          LET readable == res = "ok"
              st == ScanFrom([enable_direct |-> r.enable_direct, included_files |-> {}],
                             1, r.time_of_compilation, readable)
              key == ObjKey(r.cppver)
              stale == StaleManifest(r, key)
              put == IF stale THEN TRUE ELSE r.put_object_in_manifest
              rt == IF res = "found_time" THEN Note(r, "inc_time") ELSE r
              r0 == IF hdr.mtime >= r.time_of_compilation THEN Note(rt, "toonew")
                                                          ELSE rt
              r1 == [r0 EXCEPT !.enable_direct = st.enable_direct,
                              !.inc_alloc = r.enable_direct,
                              !.included_files = st.included_files,
                              !.i_tmpfile = TRUE,
                              !.cpp_stderr = ~cfg["cpp2"],
                              !.cached_obj_hash = KeyAfterCpp(r, key),
                              !.put_object_in_manifest = put,
                              !.fc_put = put,
                              !.mode = "cpp", !.pc = "fc_stat"]
              f1 == IF cfg["cpp2"] THEN Unlink(fs, {path_stderr(p)}) ELSE fs
          IN Step(p, r1, f1, IF stale THEN NoManifest ELSE manifest)


(* ------------------------------ to_cache ------------------------------ *)
\* what one execution of the real compiler can do: exit status, output on
\* stdout, diagnostics on stderr, and the object file it leaves
CompilerOutcomes ==
  { [status |-> 0, out |-> FALSE, diag |-> FALSE, obj |-> "full"],
    [status |-> 0, out |-> FALSE, diag |-> TRUE, obj |-> "full"],
    [status |-> 0, out |-> TRUE, diag |-> FALSE, obj |-> "full"],
    [status |-> 0, out |-> FALSE, diag |-> FALSE, obj |-> "none"],
    [status |-> 0, out |-> FALSE, diag |-> FALSE, obj |-> "empty"],
    [status |-> 1, out |-> FALSE, diag |-> TRUE, obj |-> "none"],
    [status |-> 1, out |-> FALSE, diag |-> TRUE, obj |-> "full"],
    [status |-> 1, out |-> TRUE, diag |-> TRUE, obj |-> "none"] }

\* a to_cache that lets the compiler write the cache entry in place
CompileTargetFinal(p) == cached_obj(run[p].cached_obj_hash)

\* the file the real compiler is told to write with -o
CompileTarget(p) == tmp_obj(p)

\* the driver between the two last from_cache calls: read-only mode gives
\* up; otherwise to_cache starts the real compiler, which opens its outputs
CompileStart(p) ==
  /\ run[p].pc = "compile"
  /\ LET r == Did(run[p], "compile") IN
     IF cfg["readonly"]
       THEN Failed(p, run[p], fs, manifest)
       ELSE Step(p, [r EXCEPT !.pc = "cc_run"],
                 Put(Put(Put(fs, tmp_stdout(p), Partial(Author(p), <<>>)),
                         tmp_stderr(p), Partial(Author(p), <<>>)),
                     CompileTarget(p), Partial(Author(p), <<>>)),
                 manifest)

\* execute() returns: the compiler has written its files and exited
CompileEnd(p) ==
  /\ run[p].pc = "cc_run"
  /\ \E o \in CompilerOutcomes :
       LET r == run[p]
           a == Author(p)
           ver == IF cfg["cpp2"] THEN hdr.ver ELSE r.cppver
           f0 == Put(Put(fs, tmp_stdout(p),
                         File(a, IF o.out THEN << [t |-> "stdout", v |-> ver] >> ELSE <<>>)),
                     tmp_stderr(p), File(a, CcErrData(o.diag, ver)))
           f1 == CASE o.obj = "full" -> Put(f0, CompileTarget(p), File(a, ObjData(ver)))
                   [] o.obj = "empty" -> Put(f0, CompileTarget(p), File(a, <<>>))
                   [] OTHER -> Unlink(f0, {CompileTarget(p)})
           f2 == IF cfg["cpp2"] /\ cfg["gendeps"]
                   THEN Put(f1, output_dep(p), File(a, DepData(ver)))
                   ELSE f1
       IN Step(p, [r EXCEPT !.status = o.status, !.cc_stdout = o.out,
                            !.cc_obj = o.obj, !.pc = "tc_check"],
               f2, manifest)

\* a to_cache that never looks at the compiler's status
CompileNeverFailed(r) == FALSE

\* the test "status != 0" of to_cache
CompileFailed(r) == r.status # 0

\* a to_cache that exits with the status but keeps the stderr to itself
ExitWithoutStderr(p, r, f, m) ==
  Step(p, [r EXCEPT !.pc = "done", !.exit = "status", !.code = r.status],
       Unlink(f, {tmp_stderr(p)} \cup ITmp(p, r)),
       m)

\* to_cache exits with the compiler's status after forwarding its stderr
ExitWithStatus(p, r, f, m) ==
  Step(p, [r EXCEPT !.pc = "done", !.exit = "status", !.code = r.status,
                    !.fd2 = @ \o f[tmp_stderr(p)].data],
       Unlink(f, {tmp_stderr(p)} \cup ITmp(p, r)),
       m)

\* a merge that puts the compiler's stderr first
MergedStderrRealFirst(cpp, real) == real \o cpp

\* the two copy_fd calls of the merge: the preprocessor's stderr, then the
\* compiler's
MergedStderr(cpp, real) == cpp \o real

\* a to_cache that does not look at the compiler's stdout
ProducedStdoutNever(p, r) == FALSE

\* the test "stat(tmp_stdout, &st) != 0 || st.st_size != 0" of to_cache
ProducedStdout(p, r) == ~fs[tmp_stdout(p)].ex \/ fs[tmp_stdout(p)].data # << >>

\* to_cache after execute(): the stdout test, the merge of the two stderr
\* files, the failure exit and the tests of the object file
ToCacheCheck(p) ==
  /\ run[p].pc = "tc_check"
  /\ LET r == run[p]
         tmps == {tmp_stdout(p), tmp_stderr(p), tmp_obj(p)}
     IN
     IF ProducedStdout(p, r)
       THEN Failed(p, Note(r, "stdout"), Unlink(fs, tmps), manifest)
       ELSE
         LET f0 == Unlink(fs, {tmp_stdout(p)})
             \* the merged stderr replaces tmp_stderr; cpp_stderr is removed
             f1 == IF r.cpp_stderr
                     THEN Unlink(Put(f0, tmp_stderr(p),
                                     File(Author(p),
                                          MergedStderr(f0[path_stderr(p)].data,
                                                       f0[tmp_stderr(p)].data))),
                                 {path_stderr(p)})
                     ELSE f0
             r1 == [r EXCEPT !.cpp_stderr = FALSE]
         IN
         \/ \* one of the open() calls of the merge failed
            /\ r.cpp_stderr
            /\ Failed(p, Io(r), f0, manifest)
         \/ /\ CompileFailed(r)
            /\ \/ \* tmp_stderr cannot be opened, or the object cannot be moved
                  Failed(p, Io(r1), Unlink(f1, {tmp_stderr(p), tmp_obj(p)}), manifest)
               \/ /\ cfg["devnull"] \/ ~f1[tmp_obj(p)].ex
                  /\ ExitWithStatus(p, r1, f1, manifest)
               \/ /\ ~cfg["devnull"] /\ f1[tmp_obj(p)].ex
                  /\ ExitWithStatus(p, r1,
                       Unlink(Put(f1, output_obj(p), f1[tmp_obj(p)]), {tmp_obj(p)}),
                       manifest)
         \/ /\ ~CompileFailed(r)
            /\ IF ~f1[tmp_obj(p)].ex \/ f1[tmp_obj(p)].data = <<>>
                 THEN Failed(p, r1, f1, manifest)
                 ELSE Step(p, [r1 EXCEPT !.pc = "tc_stderr"], f1, manifest)

\* move_uncompressed_file: rename src to dest (or copy it compressed under
\* a temporary name and rename that): dest appears complete or not at all
MoveFile(f, src, dest) == Put(Unlink(f, {src}), dest, f[src])

\* to_cache's two stores: the merged stderr goes to its final name when it
\* is not empty and is removed otherwise; the object goes to its final name
Store(f, p, k, what) ==
  IF what = "obj" THEN MoveFile(f, tmp_obj(p), cached_obj(k))
  ELSE IF f[tmp_stderr(p)].ex /\ f[tmp_stderr(p)].data # <<>>
    THEN MoveFile(f, tmp_stderr(p), cached_stderr(k))
    ELSE Unlink(f, {tmp_stderr(p)})

\* a to_cache that stores the object before the merged stderr
StoredAtObjectFirst(n) == IF n = 1 THEN "obj" ELSE "stderr"

\* the order of to_cache's two stores: the merged stderr, then the object
StoredAt(n) == IF n = 1 THEN "stderr" ELSE "obj"

\* to_cache stores the merged stderr when it is not empty
ToCacheStoreStderr(p) ==
  /\ run[p].pc = "tc_stderr"
  /\ LET r == run[p]
         k == r.cached_obj_hash
     IN \/ \* stat(tmp_stderr) or the move failed
           Failed(p, Io(r), fs, manifest)
        \/ Step(p, [r EXCEPT !.pc = "tc_obj"], Store(fs, p, k, StoredAt(1)),
                manifest)

\* to_cache stores the object, then the driver calls from_cache again
ToCacheStoreObj(p) ==
  /\ run[p].pc = "tc_obj"
  /\ LET r == run[p]
         k == r.cached_obj_hash
     IN \/ \* the move or the final stat failed
           Failed(p, Io(r), fs, manifest)
        \/ Step(p, [r EXCEPT !.mode = "compiled", !.pc = "fc_stat"],
                Store(fs, p, k, StoredAt(2)), manifest)

(* ------------------------- the environment ---------------------------- *)
\* the cleanup collaborator removes one file of the cache
Cleanup ==
  /\ cleanups < MaxCleanups
  /\ cleanups' = cleanups + 1
  /\ \/ /\ \E n \in CacheNames : fs[n].ex /\ fs' = Unlink(fs, {n})
        /\ UNCHANGED manifest
     \/ /\ manifest.ex
        /\ manifest' = NoManifest
        /\ UNCHANGED fs
  /\ prev' = NoPrev
  /\ UNCHANGED << cfg, conc, hdr, now, runs, run, cmd, lev, scn >>

\* somebody saves the include file, with new or with the same content
TouchInclude ==
  /\ ~cfg["noinc"]
  /\ \E v \in {hdr.ver, hdr.ver + 1} \cap Vers :
       hdr' = [ver |-> v, mtime |-> now]
  /\ hdr' # hdr
  /\ prev' = NoPrev
  /\ UNCHANGED << cfg, conc, fs, manifest, now, cleanups, runs, run, cmd, lev, scn >>

\* the user exports CCACHE_READONLY before the next invocation
SetReadOnly ==
  /\ ~cfg["readonly"]
  /\ \A p \in Procs : run[p].pc \in {"idle", "done"}
  /\ cfg' = [cfg EXCEPT !["readonly"] = TRUE]
  /\ prev' = NoPrev
  /\ UNCHANGED << conc, fs, manifest, hdr, now, cleanups, runs, run, cmd, lev, scn >>

Tick ==
  /\ now < MaxTime
  /\ now' = now + 1
  /\ UNCHANGED << cfg, conc, prev, fs, manifest, hdr, cleanups, runs, run, cmd, lev, scn >>

\* what the environment has done so far: the files it removed, the ticks of
\* the clock, and whether it saved the include file
Events == cleanups + now + (IF hdr.mtime < 0 THEN 0 ELSE 1)

(* ------------------------- the argument vector ------------------------ *)
\* A token is the literal or prefix the code compares it with (o) followed
\* by the rest of the string (v); the rest is a file name, a pair of base and
\* extension.  A token no comparison of the code matches has o = "".
NoName == <<"", "">>
T(o, v) == [o |-> o, v |-> v]
Opt(s) == T(s, NoName)
Plain(base, ext) == T("", <<base, ext>>)
Null == T("", NoName)

\* the literals the code compares a whole token with through strncmp
PrefixStems ==
  {"-x", "-o", "-g", "-I", "-L", "-D", "-U", "--specs=", "-finput-charset=",
   "-Wp,", "-Wp,-MD,", "-Wp,-MMD,"}

\* strncmp(tok, s, strlen(s)) == 0 for the prefixes s the code tests
Starts(tok, s) ==
  \/ tok.o = s /\ s \in PrefixStems \cup {"@"}
  \/ s = "-Wp," /\ tok.o \in {"-Wp,-MD,", "-Wp,-MMD,"}

\* argv[i][0] == '-'
Dash(tok) == tok.o \notin {"", "@"} \/ (tok.o = "" /\ tok.v[1] = "-")

\* strcmp(tok, s) == 0
Is(tok, s) == tok = Opt(s)

\* &argv[i][n]: what follows the prefix of a token, as a string of its own
Rest(tok) == T("", tok.v)

\* make_relative_path with CCACHE_BASEDIR not set: base_dir is NULL
base_dir == Null
make_relative_path(path) == IF base_dir = Null THEN path ELSE Rest(path)

\* the files of the working directory that stat() finds to be regular files
RegularFiles == {Plain("hello", "c"), Plain("hello", "i"), Plain("util", "o")}

\* a test that lets through regular files with a source extension only
IsRegularSource(tok) ==
  /\ tok \in RegularFiles
  /\ tok.v[2] \in {"c", "C", "cc", "cpp", "cxx", "i", "ii", "mi", "mii", "m",
                    "M", "mm"}

\* stat(argv[i], &st) == 0 && S_ISREG(st.st_mode)
IsRegular(tok) == tok \in RegularFiles

\* the names stat() finds to exist without being regular files
Devices == {Plain("/dev/tty", "")}

\* the files --specs= may name, with the bytes hash_file reads from them
SpecsFiles == {<<"a", "">>, <<"b", "">>}
SpecsContent == [a |-> "specs-1", b |-> "specs-1"]

extensions ==
  [c |-> "c", C |-> "c++", cc |-> "c++", cpp |-> "c++", cxx |-> "c++",
   i |-> "cpp-output", ii |-> "c++-cpp-output", mi |-> "objc-cpp-output",
   mii |-> "objc++-cpp-output", m |-> "objective-c", M |-> "objective-c++",
   mm |-> "objective-c++"]

languages ==
  [c |-> "i", cpp_output |-> "i", cxx |-> "ii", cxx_cpp_output |-> "ii",
   objective_c |-> "mi", objc_cpp_output |-> "mi", objective_cxx |-> "mii",
   objcxx_cpp_output |-> "mii"]

\* the key under which languages holds a language name
LangKey(l) ==
  CASE l = "c" -> "c"
    [] l = "cpp-output" -> "cpp_output"
    [] l = "c++" -> "cxx"
    [] l = "c++-cpp-output" -> "cxx_cpp_output"
    [] l = "objective-c" -> "objective_c"
    [] l = "objc-cpp-output" -> "objc_cpp_output"
    [] l = "objective-c++" -> "objective_cxx"
    [] l = "objc++-cpp-output" -> "objcxx_cpp_output"
    [] OTHER -> ""

\* language_for_file: the language of a file name, "" (NULL) when unknown
language_for_file(f) ==
  IF f.o = "" /\ f.v[2] \in DOMAIN extensions THEN extensions[f.v[2]] ELSE ""

\* i_extension_for_language without its dot, "" (NULL) when unknown; the
\* language is a token, as -x gives it
i_extension_for_language(l) ==
  IF l.o = "" /\ l.v[2] = "" /\ LangKey(l.v[1]) # ""
    THEN languages[LangKey(l.v[1])] ELSE ""

language_is_supported(l) == i_extension_for_language(l) # ""

\* a language_is_preprocessed that holds of no language
language_is_preprocessed_never(l) == FALSE

\* language_is_preprocessed: is l the language of its own i_extension
language_is_preprocessed(l) ==
  l = language_for_file(Plain("", i_extension_for_language(Plain(l, ""))))

\* a process_args that gives up on nothing it classifies
TooHardNothing(tok) == FALSE

\* the tokens process_args gives up on wherever it classifies them
TooHard(tok) ==
  \/ Starts(tok, "@")
  \/ \E s \in {"--coverage", "-M", "-MM", "-fbranch-probabilities",
               "-fprofile-arcs", "-fprofile-generate", "-fprofile-use",
               "-ftest-coverage", "-save-temps"} : Is(tok, s)

\* the options whose following argument is rewritten to a relative path
PathOpts == {"-I", "-idirafter", "-imacros", "-include", "-iprefix", "-isystem"}

\* "options that take an argument"
ArgOpts ==
  {"--param", "-A", "-D", "-G", "-L", "-MF", "-MQ", "-MT", "-U", "-V",
   "-Xassembler", "-Xlinker", "-aux-info", "-b", "-iwithprefix",
   "-iwithprefixbefore", "-u"}

\* process_args before its loop: the globals it reads and the locals it
\* declares; seen, vals and kept are history: the positions of argv the loop
\* classified, those it took as the argument of the option before them, and
\* those whose token it added to stripped_args
InitWalk(argv0, direct, unify, cpp2) ==
  [ok |-> TRUE, why |-> "", stripped_args |-> << argv0 >>,
   found_c_opt |-> FALSE, found_S_opt |-> FALSE, found_arch_opt |-> FALSE,
   explicit_language |-> Null, input_charset |-> Null,
   dependency_filename_specified |-> FALSE,
   dependency_target_specified |-> FALSE,
   input_file |-> Null, output_obj |-> Null, output_dep |-> Null,
   generating_dependencies |-> FALSE,
   enable_direct |-> direct, enable_unify |-> unify,
   compile_preprocessed_source_code |-> ~cpp2,
   seen |-> {}, vals |-> {}, kept |-> {}]

\* failed() inside process_args, with the statistic it counts
GiveUp(w, why) == [w EXCEPT !.ok = FALSE, !.why = why]

\* an args_add that adds nothing
AddNothing(w, toks, at) == w

Add(w, toks, at) == [w EXCEPT !.stripped_args = @ \o toks, !.kept = @ \cup at]

\* a process_args for which no option is too hard for direct mode
DisablesDirectNever(tok) == FALSE

\* "too hard in direct mode": -Xpreprocessor, and a -Wp, option that is not
\* -Wp,-MD,<file> or -Wp,-MMD,<file> with nothing after the file
DisablesDirect(tok) ==
  \/ Is(tok, "-Xpreprocessor")
  \/ Starts(tok, "-Wp,") /\ tok.o \notin {"-Wp,-MD,", "-Wp,-MMD,"}

\* One turn of the loop of process_args at argv[j] (argv[1] is the
\* compiler): the state after it and the position of the next turn.
\* regular: the names stat() finds to be regular files.
Classify(w, argv, j) ==
  LET tok == argv[j]
      last == j = Len(argv)
      nxt == IF last THEN Null ELSE argv[j + 1]
      WpMD == tok.o \in {"-Wp,-MD,", "-Wp,-MMD,"}
      \* the tests that set a flag and fall through to a later branch
      e == [w EXCEPT
              !.seen = @ \cup {j},
              !.enable_direct = @ /\ ~DisablesDirect(tok),
              !.found_arch_opt = @ \/ Is(tok, "-arch"),
              !.generating_dependencies =
                 @ \/ Is(tok, "-MD") \/ Is(tok, "-MMD") \/ WpMD,
              !.dependency_filename_specified =
                 @ \/ (~last /\ Is(tok, "-MF")) \/ WpMD,
              !.dependency_target_specified =
                 @ \/ (~last /\ (Is(tok, "-MQ") \/ Is(tok, "-MT"))),
              !.output_dep =
                 IF ~last /\ Is(tok, "-MF") THEN make_relative_path(nxt)
                 ELSE IF WpMD THEN make_relative_path(Rest(tok))
                 ELSE @]
      took == [e EXCEPT !.seen = @ \cup {j + 1},
                         !.vals = @ \cup {<<j + 1, tok.o>>}]
      one(x) == [w |-> x, next |-> j + 1]
      two(x) == [w |-> x, next |-> j + 2]
  IN
  IF Is(tok, "-E") THEN one(GiveUp(e, "unsupported"))
  ELSE IF TooHard(tok) THEN one(GiveUp(e, "unsupported"))
  ELSE IF Is(tok, "-arch") /\ w.found_arch_opt THEN one(GiveUp(e, "unsupported"))
  ELSE IF Is(tok, "-c") THEN one([Add(e, << tok >>, {j}) EXCEPT !.found_c_opt = TRUE])
  ELSE IF Is(tok, "-S") THEN one([Add(e, << tok >>, {j}) EXCEPT !.found_S_opt = TRUE])
  ELSE IF Is(tok, "-x") THEN
    IF last THEN one(GiveUp(e, "args"))
    ELSE two([e EXCEPT !.explicit_language =
                          IF w.input_file = Null THEN nxt ELSE @,
                        !.seen = @ \cup {j + 1},
                        !.vals = @ \cup {<<j + 1, "-x">>}])
  ELSE IF Starts(tok, "-x") THEN
    one([e EXCEPT !.explicit_language =
                     IF w.input_file = Null THEN Rest(tok) ELSE @])
  ELSE IF Is(tok, "-o") THEN
    IF last THEN one(GiveUp(e, "args"))
    ELSE two([e EXCEPT !.output_obj = nxt,
                        !.seen = @ \cup {j + 1},
                        !.vals = @ \cup {<<j + 1, "-o">>}])
  ELSE IF Starts(tok, "-o") THEN one([e EXCEPT !.output_obj = Rest(tok)])
  ELSE IF Starts(tok, "-g") THEN
    one([Add(e, << tok >>, {j}) EXCEPT
           !.enable_unify = @ /\ tok = T("-g", <<"0", "">>),
           !.compile_preprocessed_source_code =
              @ /\ tok # T("-g", <<"3", "">>)])
  ELSE IF Is(tok, "--ccache-skip") THEN
    IF last THEN two(GiveUp(e, "none"))
    ELSE two([Add(e, << nxt >>, {j + 1}) EXCEPT
                !.seen = @ \cup {j + 1},
                !.vals = @ \cup {<<j + 1, "--ccache-skip">>}])
  ELSE IF Starts(tok, "-finput-charset=") THEN one([e EXCEPT !.input_charset = tok])
  ELSE IF \E s \in PathOpts : Is(tok, s) THEN
    IF last THEN one(GiveUp(e, "args"))
    ELSE two(Add(took, << tok, make_relative_path(nxt) >>, {j, j + 1}))
  ELSE IF Starts(tok, "-I") THEN
    one(Add(e, << T("-I", make_relative_path(Rest(tok)).v) >>, {j}))
  ELSE IF \E s \in ArgOpts : Is(tok, s) THEN
    IF last THEN one(GiveUp(e, "args"))
    ELSE two(Add(took, << tok, nxt >>, {j, j + 1}))
  ELSE IF Dash(tok) THEN one(Add(e, << tok >>, {j}))
  ELSE IF ~IsRegular(tok) THEN one(Add(e, << tok >>, {j}))
  ELSE IF j = 2 /\ argv[1].v[1] = "distcc" /\ language_for_file(tok) = ""
    THEN one(Add(e, << tok >>, {j}))
  ELSE IF w.input_file # Null THEN
    one(GiveUp(e, IF language_for_file(tok) # "" THEN "multiple"
                   ELSE IF ~w.found_c_opt THEN "link"
                   ELSE "sourcelang"))
  ELSE one([e EXCEPT !.input_file = make_relative_path(tok)])

\* the loop of process_args from argv[j] on
RECURSIVE Walk(_, _, _)
Walk(w, argv, j) ==
  IF ~w.ok \/ j > Len(argv) THEN w
  ELSE LET c == Classify(w, argv, j) IN Walk(c.w, argv, c.next)

\* the object file name derived from the input file: its base name with the
\* extension replaced by o (s with -S)
DefaultObj(w) == Plain(w.input_file.v[1], IF w.found_S_opt THEN "s" ELSE "o")

\* remove_extension(output_obj) followed by ".d"
DefaultDep(obj) == Plain(obj.v[1], "d")

\* a process_args that takes "none" for a language like any other
KeepNone(l) == l

\* if (explicit_language && strcmp(explicit_language, "none") == 0)
\*   explicit_language = NULL
ResetNone(l) == IF l = Plain("none", "") THEN Null ELSE l

\* process_args after its loop, up to the two argument lists
Finish(w) ==
  LET lang == ResetNone(w.explicit_language)
      file_language == language_for_file(w.input_file)
      actual_language == IF lang # Null THEN lang.v[1] ELSE file_language
      i_extension == IF lang # Null THEN i_extension_for_language(lang)
                                    ELSE languages[LangKey(file_language)]
      obj == IF w.output_obj = Null THEN DefaultObj(w) ELSE w.output_obj
      mf == IF w.generating_dependencies /\ ~w.dependency_filename_specified
              THEN << Opt("-MF"), DefaultDep(obj) >> ELSE << >>
      mt == IF w.generating_dependencies /\ ~w.dependency_target_specified
              THEN << Opt("-MT"), obj >> ELSE << >>
      stripped == w.stripped_args \o mf \o mt
      pre == stripped
               \o (IF w.input_charset # Null THEN << w.input_charset >> ELSE << >>)
               \o (IF lang # Null THEN << Opt("-x"), lang >> ELSE << >>)
      cc == IF w.compile_preprocessed_source_code
              THEN stripped
                     \o (IF lang # Null
                           THEN << Opt("-x"),
                                   Plain(language_for_file(Plain("", i_extension)), "") >>
                           ELSE << >>)
              ELSE pre
      dep == IF mf # << >> THEN make_relative_path(mf[2]) ELSE w.output_dep
  IN
  IF ~w.ok THEN w
  ELSE IF w.input_file = Null THEN GiveUp(w, "noinput")
  ELSE IF lang # Null /\ ~language_is_supported(lang) THEN GiveUp(w, "sourcelang")
  ELSE IF lang = Null /\ file_language = "" THEN GiveUp(w, "sourcelang")
  ELSE IF ~w.found_c_opt THEN GiveUp(w, "link")
  ELSE IF w.output_obj = Plain("-", "") THEN GiveUp(w, "outstdout")
  ELSE IF w.output_obj = Null /\ w.input_file.v[2] = "" THEN GiveUp(w, "args")
  ELSE IF obj # Plain("/dev/null", "") /\ obj \in Devices THEN GiveUp(w, "device")
  ELSE [ok |-> TRUE, why |-> "",
        preprocessor_args |-> pre, compiler_args |-> cc,
        input_file |-> w.input_file, output_obj |-> obj,
        output_dep |-> dep,
        generating_dependencies |-> w.generating_dependencies,
        enable_direct |-> w.enable_direct, enable_unify |-> w.enable_unify,
        i_extension |-> i_extension,
        direct_i_file |-> language_is_preprocessed(actual_language),
        seen |-> w.seen, vals |-> w.vals, kept |-> w.kept]

\* what process_args leaves when it gives up
GivenUp(w) ==
  [ok |-> FALSE, why |-> w.why,
   preprocessor_args |-> << >>, compiler_args |-> << >>,
   input_file |-> w.input_file, output_obj |-> w.output_obj,
   output_dep |-> w.output_dep,
   generating_dependencies |-> w.generating_dependencies,
   enable_direct |-> w.enable_direct, enable_unify |-> w.enable_unify,
   i_extension |-> "", direct_i_file |-> FALSE,
   seen |-> w.seen, vals |-> w.vals, kept |-> w.kept]

\* process_args on argv, with the globals it reads
process_args(argv, direct, unify, cpp2) ==
  LET f == Finish(Walk(InitWalk(argv[1], direct, unify, cpp2), argv, 2))
  IN IF f.ok THEN f ELSE GivenUp(f)

(* ----------------- calculate_object_hash: the arguments --------------- *)
\* a hash that is fed the delimiters only
FieldDelimiterOnly(d, s) == [d |-> d, s |-> Null]

\* the hash is kept as the sequence of fields fed to it: a delimiter and the
\* string or bytes that follow it
Field(d, s) == [d |-> d, s |-> s]

\* the options whose following argument the preprocessor-mode hash skips
CppSkipOpts ==
  {"-D", "-I", "-U", "-idirafter", "-imacros", "-imultilib", "-include",
   "-iprefix", "-iquote", "-isysroot", "-isystem", "-iwithprefix",
   "-iwithprefixbefore", "-nostdinc", "-nostdinc++"}

\* the argument loop of calculate_object_hash from args[i] on (args[1] is
\* the compiler); readable: can hash_file read the specs file
RECURSIVE HashArgsFrom(_, _, _, _, _)
HashArgsFrom(h, args, i, direct_mode, readable) ==
  IF ~h.ok \/ i > Len(args) THEN h
  ELSE
    LET tok == args[i]
        more == i < Len(args)
    IN
    IF more /\ Is(tok, "-L")
      THEN HashArgsFrom(h, args, i + 2, direct_mode, readable)
    ELSE IF Starts(tok, "-L")
      THEN HashArgsFrom(h, args, i + 1, direct_mode, readable)
    ELSE IF ~direct_mode /\ more /\ (\E s \in CppSkipOpts : Is(tok, s))
      THEN HashArgsFrom(h, args, i + 2, direct_mode, readable)
    ELSE IF ~direct_mode
            /\ (Starts(tok, "-D") \/ Starts(tok, "-I") \/ Starts(tok, "-U"))
      THEN HashArgsFrom(h, args, i + 1, direct_mode, readable)
    ELSE IF Starts(tok, "--specs=") /\ tok.v \in SpecsFiles
      THEN IF readable
             THEN HashArgsFrom(
                    [h EXCEPT !.fields =
                       @ \o << Field("specs", Plain(SpecsContent[tok.v[1]], "")) >>],
                    args, i + 1, direct_mode, readable)
             ELSE [h EXCEPT !.ok = FALSE]
    ELSE HashArgsFrom([h EXCEPT !.fields = @ \o << Field("arg", tok) >>],
                      args, i + 1, direct_mode, readable)

\* calculate_common_hash: the extension and the compiler's name (the version
\* prefix and the compiler's size and mtime are the same in every run)
calculate_common_hash(res) ==
  [ok |-> TRUE,
   fields |-> << Field("ext", Plain("", res.i_extension)),
                 Field("cc_name", res.preprocessor_args[1]) >>]

\* calculate_object_hash(direct_mode = 1) up to hash_result: the manifest
\* name.  The source file is the same in every invocation.
DirectHash(res, readable) ==
  LET h == HashArgsFrom(calculate_common_hash(res), res.preprocessor_args, 2,
                        TRUE, readable)
  IN [h EXCEPT !.fields = @ \o << Field("inputfile", res.input_file),
                                  Field("sourcecode", Plain("source", "")) >>]

\* calculate_object_hash(direct_mode = 0) up to hash_result, on the
\* preprocessor output given: the object name
CppHash(res, readable, cpp) ==
  LET h == HashArgsFrom(calculate_common_hash(res), res.preprocessor_args, 2,
                        FALSE, readable)
  IN [h EXCEPT !.fields = @ \o << Field("cpp", cpp[1]), Field("cppstderr", cpp[2]) >>]

(* ------------------- invocations and their variations ----------------- *)
\* the longest run of free tokens between the compiler and the tail
MaxArgs == 3

ValueA == <<"a", "">>
ValueB == <<"b", "">>

\* the tokens an invocation is drawn from
ArgAlphabet ==
  {T("", ValueA), Opt("-O2"), Opt("-nostdinc"), Opt("-arch"),
   Opt("--ccache-skip"), T("--specs=", ValueA), T("@", ValueA)}
    \cup {T(o, v) : o \in {"-I", "-D", "-U", "-L", "-o"}, v \in {NoName, ValueA}}
    \cup {Opt(s) : s \in {"-E", "-M", "-MM", "--coverage", "-fbranch-probabilities",
                          "-fprofile-arcs", "-fprofile-generate", "-fprofile-use",
                          "-ftest-coverage", "-save-temps"}}

\* how an invocation ends: a compilation, a link, no input file
ArgTails ==
  { << Opt("-c"), Plain("hello", "c") >>, << Plain("hello", "c") >>, << Opt("-c") >> }

Argvs ==
  { << Plain("gcc", "") >> \o p \o t :
      p \in UNION {[1..n -> ArgAlphabet] : n \in 0..MaxArgs}, t \in ArgTails }

\* the preprocessor's stdout and stderr, the same for every invocation looked at
CppOutput == << Plain("cpp-stdout", ""), Plain("cpp-stderr", "") >>

NoResult ==
  GivenUp(GiveUp(InitWalk(Null, FALSE, FALSE, FALSE), "not run"))

NoHash == [ok |-> FALSE, fields |-> << >>]
NoHashes == [direct |-> NoHash, cpp |-> NoHash]

\* no invocation is looked at
NoArgs ==
  [stage |-> "none", a |-> << >>, b |-> << >>, how |-> "none", at |-> 0,
   ra |-> NoResult, rb |-> NoResult, ha |-> NoHashes, hb |-> NoHashes]

\* has position j of the invocation been taken as the argument of option o
ValueOf(r, j, o) == <<j, o>> \in r.vals

\* does a new option start at position j
Boundary(r, j) == j \in r.seen /\ ~(\E o \in {x[2] : x \in r.vals} : ValueOf(r, j, o))

Insert(a, j, toks) == SubSeq(a, 1, j - 1) \o toks \o SubSeq(a, j, Len(a))

\* the invocations that differ from a in the value of one -I, -D or -U
\* option, spaced or joined
ValueVariants(a, r) ==
  { [at |-> j, b |-> [a EXCEPT ![j] = T(a[j].o, ValueB)]] :
      j \in { k \in r.seen :
                /\ a[k].v = ValueA
                /\ \/ a[k].o = "" /\ \E o \in {"-I", "-D", "-U"} : ValueOf(r, k, o)
                   \/ a[k].o \in {"-I", "-D", "-U"} /\ Boundary(r, k) } }

\* the invocations that differ from a in the presence or the value of one
\* -L option, spaced or joined
LVariants(a, r) ==
  { [at |-> j, b |-> Insert(a, j, l)] :
      j \in {k \in 2..(Len(a) + 1) : Boundary(r, k) \/ k = Len(a) + 1},
      l \in { << Opt("-L"), T("", ValueA) >>, << T("-L", ValueA) >> } }
  \cup
  { [at |-> j, b |-> [a EXCEPT ![j] = T(a[j].o, ValueB)]] :
      j \in { k \in r.seen :
                /\ a[k].v = ValueA
                /\ \/ a[k].o = "" /\ ValueOf(r, k, "-L")
                   \/ a[k].o = "-L" /\ Boundary(r, k) } }

\* the tokens that may stand in the place of a token
Alt(t) ==
  IF t = Opt("-O2") THEN {Opt("-O3")}
  ELSE IF t.v = ValueA
    THEN {T(t.o, ValueB)} \cup (IF t.o = "--specs=" THEN {T(t.o, <<"n", "">>)} ELSE {})
  ELSE {}

\* the invocations that differ from a in one token that is passed on to the
\* preprocessor
TokenVariants(a, r) ==
  UNION { { [at |-> j, b |-> [a EXCEPT ![j] = t]] : t \in Alt(a[j]) } : j \in r.kept }

\* ccache() from its start to the end of process_args, for the invocation
\* looked at: the classifier gives up through failed(), or the run goes on
ProcessArgs ==
  /\ cmd.stage = "argv"
  /\ LET res == process_args(cmd.a, DirectFromEnv, cfg["unify"], cfg["cpp2"])
         r0 == [InitRun EXCEPT !.enable_direct = res.enable_direct,
                               !.direct_i_file = res.direct_i_file]
         f0 == Unlink(fs, {n \in TmpNames \cup OutNames : n[2] = 1})
     IN /\ cmd' = [cmd EXCEPT !.stage = "classified", !.ra = res]
        /\ IF res.ok
             THEN StepRun(1, [r0 EXCEPT !.pc = IF r0.enable_direct THEN "direct"
                                                                  ELSE "cpp"],
                          f0, manifest)
             ELSE StepRun(1, FailedRun(r0), FailedFs(1, r0, f0), manifest)

\* a second invocation that differs from the first in one place, and what
\* process_args makes of it
Vary ==
  /\ cmd.stage = "classified"
  /\ cmd.ra.ok
  /\ \E how \in {"value", "L", "token"} :
       \E x \in (CASE how = "value" -> ValueVariants(cmd.a, cmd.ra)
                   [] how = "L" -> LVariants(cmd.a, cmd.ra)
                   [] OTHER -> TokenVariants(cmd.a, cmd.ra)) :
         LET res == process_args(x.b, DirectFromEnv, cfg["unify"], cfg["cpp2"]) IN
         /\ res.ok
         /\ cmd' = [cmd EXCEPT !.stage = "varied", !.b = x.b, !.how = how,
                                 !.at = x.at, !.rb = res]
  /\ UNCHANGED << cfg, conc, prev, fs, manifest, hdr, now, cleanups, runs, run, lev, scn >>

\* the two hashes of both invocations
HashArgs ==
  /\ cmd.stage = "varied"
  /\ \E readable \in BOOLEAN :
       cmd' = [cmd EXCEPT
                  !.stage = "hashed",
                  !.ha = [direct |-> DirectHash(cmd.ra, readable),
                          cpp |-> CppHash(cmd.ra, readable, CppOutput)],
                  !.hb = [direct |-> DirectHash(cmd.rb, readable),
                          cpp |-> CppHash(cmd.rb, readable, CppOutput)]]
  /\ UNCHANGED << cfg, conc, prev, fs, manifest, hdr, now, cleanups, runs, run, lev, scn >>

(* ------------------- invocations that name a language ----------------- *)
\* the longest run of tokens after the compiler
MaxInputArgs == 4

\* the tokens such an invocation is drawn from: -c, -x spaced and joined,
\* the names of languages, and the regular files of the working directory
InputAlphabet ==
  {Opt("-c"), Opt("-x"), Plain("none", ""), Plain("c", ""),
   Plain("cpp-output", ""), T("-x", <<"none", "">>), T("-x", <<"c", "">>),
   T("-x", <<"cpp-output", "">>)} \cup RegularFiles

InputArgvs ==
  { << Plain("gcc", "") >> \o a :
      a \in UNION {[1..n -> InputAlphabet] : n \in 0..MaxInputArgs} }

(* ------------------- the levels setting and cache paths --------------- *)

\* The largest value of an int.
IntMax == 2147483647

Digits == {"0", "1", "2", "3", "4", "5", "6", "7", "8", "9"}

DigitValue(c) == CHOOSE d \in 0..9 : ToString(d) = c

\* The environment has no levels setting.
Unset == << "unset" >>

\* Values of the levels setting, character by character.
LevelSettings ==
  { << >>, << "0" >>, << "1" >>, << "2" >>, << "5" >>, << "8" >>, << "9" >>,
    << "1", "0" >>, << "0", "7" >>, << "-", "1" >>, << "-", "3", "0" >>,
    << "+", "4" >>, << " ", "3" >>, << "a", "b", "c" >>, << "9", "x" >>,
    << "2", "1", "4", "7", "4", "8", "3", "6", "4", "7" >>,
    << "2", "1", "4", "7", "4", "8", "3", "6", "4", "8" >>,
    << "4", "2", "9", "4", "9", "6", "7", "3", "0", "1" >>,
    << "9", "9", "9", "9", "9", "9", "9", "9", "9", "9",
       "9", "9", "9", "9", "9", "9", "9", "9", "9", "9" >> }

\* What atoi may return for a number no int can hold: the conversion is
\* undefined there; a C library that converts through a long and truncates
\* gives the low bits, which can be any int.
OutOfRange == {-1, 0, 1, 5, 9, IntMax}

\* The index of the first character of s at or after i that is no blank.
RECURSIVE SkipBlanks(_, _)
SkipBlanks(s, i) ==
  IF i <= Len(s) /\ s[i] = " " THEN SkipBlanks(s, i + 1) ELSE i

\* The digits of s from i on, accumulated on acc; "over" once no int holds it.
RECURSIVE Accumulate(_, _, _)
Accumulate(s, i, acc) ==
  IF i > Len(s) \/ s[i] \notin Digits THEN acc
  ELSE IF acc > (IntMax - DigitValue(s[i])) \div 10 THEN -1
  ELSE Accumulate(s, i + 1, acc * 10 + DigitValue(s[i]))

\* atoi: the values it may return for s.
atoi(s) ==
  LET i == SkipBlanks(s, 1)
      signed == i <= Len(s) /\ s[i] \in {"-", "+"}
      neg == i <= Len(s) /\ s[i] = "-"
      n == Accumulate(s, IF signed THEN i + 1 ELSE i, 0)
  IN  IF n = -1 THEN OutOfRange
      ELSE {IF neg THEN 0 - n ELSE n}

\* ccache(): the two comparisons after atoi.
Clamp(n) == IF n < 1 THEN 1 ELSE IF n > 8 THEN 8 ELSE n

cache_dir == << << "c", "a", "c", "h", "e" >> >>

\* Names as format_hash_as_string makes them: hexadecimal digits of the hash,
\* a dash and the size.
ObjectNames ==
  { << "3", "f", "a", "0", "7", "c", "1", "e", "9", "b", "d", "2", "-", "4", "1" >>,
    << "0", "0", "0", "0", "0", "0", "0", "0", "0", "0", "0", "0", "-", "7" >> }

Suffixes ==
  { << ".", "o" >>, << ".", "s", "t", "d", "e", "r", "r" >>, << ".", "d" >>,
    << ".", "m", "a", "n", "i", "f", "e", "s", "t" >> }

\* The directories get_path_in_cache walks through: one per level.
RECURSIVE LevelDirs(_, _, _)
LevelDirs(path, name, i) ==
  IF i = 0 THEN path
  ELSE Append(LevelDirs(path, name, i - 1), << name[i] >>)

NoLevels ==
  [stage |-> "none", setting |-> Unset, nlevels |-> 2, name |-> << >>,
   suffix |-> << >>, path |-> << >>]

\* ccache(): the levels setting is read.
ReadLevels ==
  /\ lev.stage = "env"
  /\ \E n \in (IF lev.setting = Unset THEN {lev.nlevels}
               ELSE {Clamp(v) : v \in atoi(lev.setting)}) :
       lev' = [lev EXCEPT !.stage = "levels", !.nlevels = n]
  /\ UNCHANGED << cfg, conc, prev, fs, manifest, hdr, now, cleanups, runs, run,
                  cmd, scn >>

\* get_path_in_cache: the directories level by level, then the file; a
\* directory that cannot be made ends the run in failed().
GetPathInCache ==
  /\ lev.stage = "levels"
  /\ \/ \E made \in 0..(lev.nlevels - 1) :
          lev' = [lev EXCEPT !.stage = "failed",
                             !.path = LevelDirs(cache_dir, lev.name, made)]
     \/ lev' = [lev EXCEPT
          !.stage = "path",
          !.path = Append(LevelDirs(cache_dir, lev.name, lev.nlevels),
                          SubSeq(lev.name, lev.nlevels + 1, Len(lev.name))
                            \o lev.suffix)]
  /\ UNCHANGED << cfg, conc, prev, fs, manifest, hdr, now, cleanups, runs, run,
                  cmd, scn >>

(* ------------------- process_preprocessed_file ------------------------ *)

\* The bytes of a preprocessed file are one-character strings; NUL is the
\* byte of value zero.
NUL == "NUL"

MaxChunks == 4

\* Pieces preprocessed files are put together from.
Chunks ==
  { << "#", " ", "1", " ", "\"", "/", "b", "/", "x", "\"", "\n" >>,
    << "#", " ", "1", " " >>,
    << "#", "l", "i", "n", "e", " ", "1", " " >>,
    << "\"" >>,
    << "/", "b", "/", "x" >>,
    << "y" >>,
    << "y", NUL, "z" >>,
    << "\n" >>,
    << "i", "n", "t" >> }

RECURSIVE Flatten(_)
Flatten(cs) == IF cs = << >> THEN << >> ELSE Head(cs) \o Flatten(Tail(cs))

PreprocessedFiles ==
  {Flatten(cs) : cs \in UNION {[1..n -> Chunks] : n \in 0..MaxChunks}}

\* CCACHE_BASEDIR: not set, or a directory.
NoBase == << >>

BaseDirs == {NoBase, << "/", "b" >>}

\* The byte at offset k of d.
At(d, k) == d[k + 1]

\* The bytes of d from offset a up to, not including, offset b.
Span(d, a, b) == SubSeq(d, a + 1, b)

\* x_strndup: the bytes of s up to its first NUL.
RECURSIVE x_strndup(_)
x_strndup(s) ==
  IF s = << >> \/ Head(s) = NUL THEN << >>
  ELSE << Head(s) >> \o x_strndup(Tail(s))

\* get_relative_path (util.c) from the base directory as working directory:
\* a path below it loses the directory and the slash.
get_relative_path(base, path) ==
  IF Len(path) > Len(base) /\ path[Len(base) + 1] = "/"
    THEN SubSeq(path, Len(base) + 2, Len(path))
    ELSE << ".", ".", "/" >> \o SubSeq(path, 2, Len(path))

\* make_relative_path on the bytes of a path of the preprocessed file.
RelativeTo(base, path) ==
  IF base = NoBase \/ Len(path) < Len(base)
       \/ SubSeq(path, 1, Len(base)) # base
    THEN path
    ELSE get_relative_path(base, path)

\* The offset of the first quote of d at or after q, the size of d if none.
RECURSIVE ToQuote(_, _)
ToQuote(d, q) ==
  IF q < Len(d) /\ At(d, q) # "\"" THEN ToQuote(d, q + 1) ELSE q

IsDigit(c) == c \in {"0", "1", "2", "3", "4", "5", "6", "7", "8", "9"}

\* q == data || q[-1] == '\n'
LineStart(d, q) == q = 0 \/ At(d, q - 1) = "\n"

\* The test of the loop body: q looks at "# N" or "#line " at the start of a
\* line.
AtDirective(d, q) ==
  /\ At(d, q) = "#"
  /\ \/ At(d, q + 1) = " " /\ IsDigit(At(d, q + 2))
     \/ /\ At(d, q + 1) = "l" /\ At(d, q + 2) = "i" /\ At(d, q + 3) = "n"
        /\ At(d, q + 4) = "e" /\ At(d, q + 5) = " "
  /\ LineStart(d, q)

NoScan ==
  [stage |-> "none", data |-> << >>, base |-> NoBase, direct |-> FALSE,
   p |-> 0, q |-> 0, fed |-> << >>, remembered |-> << >>]

\* hash_buffer(hash, p, q - p)
FeedRaw(s, a, b) ==
  Append(s.fed, [kind |-> "raw", from |-> a, to |-> b,
                 bytes |-> Span(s.data, a, b)])

\* hash_string(hash, path) for the path spanning [a, b)
FeedPath(fed, s, a, b) ==
  Append(fed, [kind |-> "path", from |-> a, to |-> b,
               bytes |-> RelativeTo(s.base, x_strndup(Span(s.data, a, b)))])

UnchangedButScan ==
  UNCHANGED << cfg, conc, prev, fs, manifest, hdr, now, cleanups, runs, run,
               cmd, lev >>

\* process_preprocessed_file up to the loop: open, fstat and mmap; each may
\* fail, and no empty file can be mapped.
ScanOpen ==
  /\ scn.stage = "open"
  /\ \/ scn' = [scn EXCEPT !.stage = "failed"]
     \/ /\ scn.data # << >>
        /\ scn' = [scn EXCEPT !.stage = "scan", !.p = 0, !.q = 0]
  /\ UnchangedButScan

\* One turn of the loop.
ScanStep ==
  /\ scn.stage = "scan"
  /\ scn.q < Len(scn.data) - 7
  /\ LET d == scn.data
         end == Len(d)
         open == ToQuote(d, scn.q) + 1
         close == ToQuote(d, open)
     IN  IF AtDirective(d, scn.q)
           THEN IF open >= end
                  THEN scn' = [scn EXCEPT !.stage = "failed", !.q = open]
                  ELSE scn' = [scn EXCEPT
                         !.fed = FeedPath(FeedRaw(scn, scn.p, open), scn,
                                          open, close),
                         !.remembered =
                            IF scn.direct
                              THEN Append(@, RelativeTo(scn.base,
                                     x_strndup(Span(d, open, close))))
                              ELSE @,
                         !.p = close, !.q = close]
           ELSE scn' = [scn EXCEPT !.q = @ + 1]
  /\ UnchangedButScan

\* After the loop: the pending bytes and the rest of the file are hashed.
ScanFinish ==
  /\ scn.stage = "scan"
  /\ ~(scn.q < Len(scn.data) - 7)
  /\ scn' = [scn EXCEPT !.stage = "done",
                        !.fed = FeedRaw(scn, scn.p, Len(scn.data))]
  /\ UnchangedButScan

(* --------------------------- specifications --------------------------- *)
RunStep(p) ==
  \/ Start(p)
  \/ DirectAttempt(p)
  \/ FromCacheStat(p)
  \/ FromCacheCopy(p)
  \/ FromCacheDep(p)
  \/ FromCacheFinish(p)
  \/ ManifestWrite(p)
  \/ Preprocess(p)
  \/ ScanHash(p)
  \/ CompileStart(p)
  \/ CompileEnd(p)
  \/ ToCacheCheck(p)
  \/ ToCacheStoreStderr(p)
  \/ ToCacheStoreObj(p)

\* runs one after the other, in an environment that acts MaxEvents times
Next ==
  \/ \E p \in Procs : RunStep(p)
  \/ Events < MaxEvents /\ Cleanup
  \/ Events < MaxEvents /\ TouchInclude
  \/ SetReadOnly
  \/ Events < MaxEvents /\ Tick

\* overlapping runs of one compilation while the sources are left alone
NextConc ==
  \/ \E p \in Procs : RunStep(p)
  \/ Cleanup

\* the settings with at most one switch off its default
Configs ==
  {c \in AllConfigs :
     /\ ~c["readonly"]
     /\ ~c["unify"]
     /\ Cardinality({f \in Flags : c[f]}) \in {0, 1}}

\* overlapping runs: the default settings, and those of a compilation that
\* also writes a dependency file
ConcConfigs ==
  {c \in Configs : \A f \in Flags : c[f] => f = "gendeps"}

\* runs one after the other
Init ==
  /\ cfg \in Configs
  /\ conc = FALSE
  /\ InitCommon
  /\ cmd = NoArgs
  /\ lev = NoLevels
  /\ scn = NoScan

Spec == Init /\ [][Next]_vars

InitConc ==
  /\ cfg \in ConcConfigs
  /\ conc = TRUE
  /\ InitCommon
  /\ cmd = NoArgs
  /\ lev = NoLevels
  /\ scn = NoScan

SpecConc == InitConc /\ [][NextConc]_vars

\* overlapping runs of one compilation that also writes a dependency file,
\* whose include file is edited and saved once while they run, after which
\* the clock moves on
NextRace ==
  \/ \E p \in Procs : RunStep(p)
  \/ hdr.mtime < 0 /\ TouchInclude
  \/ hdr.mtime >= 0 /\ Tick

InitRace ==
  /\ cfg = [f \in Flags |-> f = "gendeps"]
  /\ conc = TRUE
  /\ InitCommon
  /\ cmd = NoArgs
  /\ lev = NoLevels
  /\ scn = NoScan

SpecRace == InitRace /\ [][NextRace]_vars

\* one invocation classified token by token, a variation of it, and the
\* hashes of both
NextArgs ==
  \/ ProcessArgs
  \/ Vary
  \/ HashArgs

InitArgs ==
  /\ cfg = [f \in Flags |-> FALSE]
  /\ conc = FALSE
  /\ InitCommon
  /\ cmd \in {[NoArgs EXCEPT !.stage = "argv", !.a = a] : a \in Argvs}
  /\ lev = NoLevels
  /\ scn = NoScan

SpecArgs == InitArgs /\ [][NextArgs]_vars

\* The levels setting is read and one cache path is derived.
NextLevels ==
  \/ ReadLevels
  \/ GetPathInCache

InitLevels ==
  /\ cfg = [f \in Flags |-> FALSE]
  /\ conc = FALSE
  /\ InitCommon
  /\ cmd = NoArgs
  /\ scn = NoScan
  /\ lev \in {[NoLevels EXCEPT !.stage = "env", !.setting = s, !.name = n,
                                !.suffix = x] :
               s \in LevelSettings \cup {Unset}, n \in ObjectNames,
               x \in Suffixes}

SpecLevels == InitLevels /\ [][NextLevels]_vars

\* process_preprocessed_file on one preprocessed file.
NextScan ==
  \/ ScanOpen
  \/ ScanStep
  \/ ScanFinish

InitScan ==
  /\ cfg = [f \in Flags |-> FALSE]
  /\ conc = FALSE
  /\ InitCommon
  /\ cmd = NoArgs
  /\ lev = NoLevels
  /\ scn \in {[NoScan EXCEPT !.stage = "open", !.data = d, !.base = b,
                            !.direct = e] :
               d \in PreprocessedFiles, b \in BaseDirs, e \in BOOLEAN}

SpecScan == InitScan /\ [][NextScan]_vars

\* the steps of a run after process_args
RunOn(p) ==
  \/ DirectAttempt(p)
  \/ FromCacheStat(p)
  \/ FromCacheCopy(p)
  \/ FromCacheFinish(p)
  \/ ManifestWrite(p)
  \/ Preprocess(p)
  \/ ScanHash(p)
  \/ CompileStart(p)
  \/ CompileEnd(p)
  \/ ToCacheCheck(p)
  \/ ToCacheStoreStderr(p)
  \/ ToCacheStoreObj(p)

\* one invocation on an empty cache: process_args, then the run
NextInput ==
  \/ ProcessArgs
  \/ RunOn(1)

InitInput ==
  /\ cfg = [f \in Flags |-> FALSE]
  /\ conc = FALSE
  /\ InitCommon
  /\ cmd \in {[NoArgs EXCEPT !.stage = "argv", !.a = a] : a \in InputArgvs}
  /\ lev = NoLevels
  /\ scn = NoScan

SpecInput == InitInput /\ [][NextInput]_vars

(* ------------------------------ properties ---------------------------- *)
\* run p takes a step that ends it
Ends(p) ==
  /\ run'[p].pc = "done"
  /\ run[p].pc # "done" \/ runs' # runs

\* the steps of a direct-mode hit: neither preprocessor nor compiler ran
DirectHit(r) ==
  r.steps = << <<"direct", "none">>, <<"manifest_get", "none">>,
               <<"lookup", "direct">>, <<"serve", "direct">> >>

\* nothing outside the tool failed in the run, and its preprocessor, if it
\* ran, accepted the source
Undisturbed(r) == ~Noted(r, "ioerr") /\ ~Noted(r, "cpperr")

EndsWith(s, t) ==
  Len(s) >= Len(t) /\ SubSeq(s, Len(s) - Len(t) + 1, Len(s)) = t

\* C1: with runs overlapping on one cache directory, a file under a final
\* cache name (K.o, K.stderr, K.d, the manifest) is complete whenever it
\* exists: the compiler writes under the run's own temporary name and the
\* file gets its final name by a rename.
C1_NoPartialFinalFile ==
  /\ \A n \in CacheNames : fs[n].ex => fs[n].full
  /\ manifest.ex => manifest.full

\* one run's compiler is in the middle of writing its object while the other
\* run is about to copy the stored object to its output
C1_Witness ==
  \E p, q \in Procs :
    /\ p # q
    /\ run[p].pc = "cc_run"
    /\ fs[tmp_obj(p)].ex /\ ~fs[tmp_obj(p)].full
    /\ run[q].pc = "fc_copy"
    /\ fs[cached_obj(run[q].cached_obj_hash)].ex

C3_DirectHitServes ==
  \A p \in Procs :
    (/\ <<"present", "direct">> \in run[p].notes /\ run[p].pc = "done"
     /\ ~Noted(run[p], "ioerr"))
      => /\ run[p].exit = "served" /\ run[p].code = 0
         /\ ~HasStep(run[p], "cpp") /\ ~HasStep(run[p], "compile")

\* C3 amended: the same provided CCACHE_RECACHE is not set and the link or
\* copy to the output succeeds (no file vanished, no other error); the serve
\* runs with put_object_in_manifest = false and writes no manifest.
C3_DirectHitServesUnlessRecacheOrCopyFails ==
  \A p \in Procs :
    (/\ <<"present", "direct">> \in run[p].notes
     /\ ~cfg["recache"]
     /\ ~Noted(run[p], "ioerr") /\ ~Noted(run[p], "enoent"))
      => /\ ~HasStep(run[p], "cpp") /\ ~HasStep(run[p], "compile")
         /\ ~HasStep(run[p], "manifest_put")
         /\ run[p].pc \in {"fc_copy", "fc_dep", "fc_finish", "done"}
         /\ run[p].pc # "done" => run[p].mode = "direct" /\ ~run[p].fc_put
         /\ run[p].pc = "done" => run[p].exit = "served" /\ run[p].code = 0

\* a direct hit that also produced the dependency file from the cache
C3_Witness ==
  \E p \in Procs :
    /\ <<"present", "direct">> \in run[p].notes
    /\ run[p].pc = "done" /\ run[p].exit = "served"
    /\ cfg["gendeps"] /\ fs[output_dep(p)].ex /\ fs[output_obj(p)].ex

\* C4 as stated: a run ends in one of three ways only: served with exit
\* code 0, exited with the compiler's status, or handed over to the real
\* compiler by failed().
C4_EndsServedStatusOrFallback ==
  \A p \in Procs :
    run[p].pc = "done" => run[p].exit \in {"served", "status", "fallback"}

\* the place of a step in the order the claim gives
StepRank(s) ==
  CASE s[1] = "direct" -> 1
    [] s[1] = "manifest_get" -> 2
    [] s = <<"lookup", "direct">> -> 3
    [] s[1] = "cpp" -> 4
    [] s = <<"lookup", "cpp">> -> 5
    [] s[1] = "compile" -> 6
    [] s = <<"lookup", "compiled">> -> 7
    [] s[1] = "serve" -> 8
    [] s[1] = "manifest_put" -> 9
    [] OTHER -> 0

\* C5: the steps of a run come in one order and none comes twice: direct
\* attempt, manifest lookup, store lookup for the manifest's key,
\* preprocessor, store lookup for the preprocessor-mode key, compile, store
\* lookup after the compilation, serve; a step that happens has had the
\* steps it depends on before it.
C5_StepsStrictlyOrdered ==
  \A p \in Procs :
    LET st == run[p].steps
        has(s) == \E i \in 1..Len(st) : st[i] = s
    IN /\ \A i, j \in 1..Len(st) :
            i < j => 0 < StepRank(st[i]) /\ StepRank(st[i]) < StepRank(st[j])
       /\ has(<<"lookup", "direct">>) => HasStep(run[p], "manifest_get")
       /\ HasStep(run[p], "manifest_get") => HasStep(run[p], "direct")
       /\ has(<<"lookup", "cpp">>) => HasStep(run[p], "cpp")
       /\ HasStep(run[p], "compile") => HasStep(run[p], "cpp")
       /\ has(<<"lookup", "compiled">>) => HasStep(run[p], "compile")
       /\ has(<<"serve", "compiled">>) => has(<<"lookup", "compiled">>)

\* a run that went through the direct attempt, the preprocessor, the
\* compiler and the serve
C5_Witness ==
  \E p \in Procs :
    /\ run[p].pc = "done" /\ run[p].exit = "served"
    /\ \E i \in 1..Len(run[p].steps) : run[p].steps[i] = <<"lookup", "direct">>
    /\ HasStep(run[p], "compile")
    /\ Len(run[p].steps) >= 8

\* C6 as stated: when the compiler of the compile step exited with a
\* non-zero status, the run (when no operation fails) ends with that exit
\* code and the compiler's stderr is what it wrote last to file descriptor 2.
C6_FailedCompileForwardsStatus ==
  [][\A p \in Procs :
       (/\ run[p].pc = "tc_check" /\ run[p].status # 0 /\ run'[p] # run[p]
        /\ <<"ioerr", "tc_check">> \notin run'[p].notes)
         => /\ run'[p].pc = "done" /\ run'[p].exit = "status"
            /\ run'[p].code = run[p].status
            /\ EndsWith(run'[p].fd2, fs[tmp_stderr(p)].data)]_vars

\* C6 amended: the same provided the compiler wrote nothing to stdout and
\* the stderr files can be opened and the object moved; what reaches file
\* descriptor 2 is the preprocessor's stderr (when the preprocessed source
\* is what is compiled) followed by the compiler's.
C6_FailedCompileForwardsStatusUnlessStdout ==
  [][\A p \in Procs :
       (/\ run[p].pc = "tc_check" /\ run[p].status # 0 /\ run'[p] # run[p]
        /\ ~run[p].cc_stdout
        /\ <<"ioerr", "tc_check">> \notin run'[p].notes)
         => /\ run'[p].pc = "done" /\ run'[p].exit = "status"
            /\ run'[p].code = run[p].status
            /\ run'[p].fd2 =
                 (IF run[p].cpp_stderr THEN fs[path_stderr(p)].data ELSE <<>>)
                   \o fs[tmp_stderr(p)].data]_vars

\* a run ended with the compiler's status 1 after forwarding a warning of
\* the preprocessor and the compiler's diagnostics
C6_Witness ==
  \E p \in Procs :
    /\ run[p].pc = "done" /\ run[p].exit = "status" /\ run[p].code = 1
    /\ Len(run[p].fd2) = 2

\* C7: a run whose compiler exited with a non-zero status creates or
\* replaces no file of the cache.
C7_FailedCompileStoresNothing ==
  \A p \in Procs : run[p].status # 0 => run[p].wrote = {}

\* a failed compilation whose partial object went to the output file
C7_Witness ==
  \E p \in Procs :
    /\ run[p].pc = "done" /\ run[p].status # 0 /\ run[p].exit = "status"
    /\ fs[output_obj(p)].ex
    /\ run[p].wrote = {}

\* C8 as stated: with CCACHE_READONLY set, no step of a run creates,
\* replaces or removes an object, stderr or dependency file of the cache or
\* the manifest.
C8_ReadOnlyNeverChangesCache ==
  [][(cfg["readonly"] /\ run' # run)
       => /\ \A n \in CacheNames : fs'[n] = fs[n]
          /\ manifest' = manifest]_vars

\* C9 as stated: no run removes a file K.o, K.stderr or K.d of the cache.
C9_RunsNeverRemoveEntries ==
  \A p \in Procs : run[p].removed \cap CacheNames = {}

\* C9 amended: a run removes entry files only in the serve step, when the
\* link or copy of the object or the dependency file fails with ENOENT, and
\* then only those of its own key; it creates K.stderr and K.o only when
\* storing a successful compilation, and K.d only in a serve that is not
\* a direct-mode serve (a preprocessor-mode hit included).
C9_EntriesRemovedOnlyOnEnoent ==
  [][\A p \in Procs : \A n \in CacheNames :
       (run'[p] # run[p])
         => /\ (fs[n].ex /\ ~fs'[n].ex)
                 => /\ run[p].pc \in {"fc_copy", "fc_dep"}
                    /\ n[2] = run[p].cached_obj_hash
                    /\ Noted(run'[p], "enoent")
            /\ (fs'[n].ex /\ fs'[n] # fs[n])
                 => \/ run[p].pc = "tc_stderr" /\ run[p].status = 0
                       /\ n = cached_stderr(run[p].cached_obj_hash)
                    \/ run[p].pc = "tc_obj" /\ run[p].status = 0
                       /\ n = cached_obj(run[p].cached_obj_hash)
                    \/ run[p].pc = "fc_finish" /\ run[p].mode # "direct"
                       /\ n = cached_dep(run[p].cached_obj_hash)]_vars

\* a run removed the object of its key after the copy to the output met
\* ENOENT
C9_Witness ==
  \E p \in Procs :
    /\ Noted(run[p], "enoent")
    /\ \E k \in Keys : cached_obj(k) \in run[p].removed

\* C10: when the include file has mtime >= time_of_compilation and the
\* include_file_mtime sloppiness is off, direct mode is disabled from the
\* scan of the preprocessed output to the end of the run, and the run does
\* not call manifest_put.
C10_TooNewIncludeDisablesDirect ==
  \A p \in Procs :
    (Noted(run[p], "toonew") /\ ~cfg["sloppy_mtime"])
      => /\ run[p].pc # "done" => ~run[p].enable_direct
         /\ run[p].pc # "mf_put"
         /\ ~HasStep(run[p], "manifest_put")

\* a run that met an include file saved in the second of the compilation,
\* compiled, and was served without writing the manifest
C10_Witness ==
  \E p \in Procs :
    /\ Noted(run[p], "toonew") /\ ~cfg["sloppy_mtime"] /\ ~cfg["nodirect"]
    /\ run[p].pc = "done" /\ run[p].exit = "served"
    /\ HasStep(run[p], "compile")
    /\ ~manifest.ex

\* C11: once hashing the source file or the include file has reported a time
\* macro (HASH_SOURCE_CODE_FOUND_TIME), direct mode stays disabled to the end
\* of the run and the run does not call manifest_put; when the report came
\* from the source file the run does not call manifest_get either.
C11_TimeMacroDisablesDirect ==
  \A p \in Procs :
    /\ (Noted(run[p], "src_time") \/ Noted(run[p], "inc_time"))
         => /\ run[p].pc # "done" => ~run[p].enable_direct
            /\ run[p].pc # "mf_put"
            /\ ~HasStep(run[p], "manifest_put")
            /\ ManifestName \notin run[p].wrote
    /\ Noted(run[p], "src_time")
         => /\ ~HasStep(run[p], "manifest_get")
            /\ run[p].object_hash_from_manifest = NoKey
            /\ ~run[p].manifest_path

\* a run found a time macro in the include file after its manifest lookup
\* missed, compiled, and was served with no manifest written
C11_Witness ==
  \E p \in Procs :
    /\ Noted(run[p], "inc_time")
    /\ HasStep(run[p], "manifest_get")
    /\ HasStep(run[p], "compile")
    /\ run[p].pc = "done" /\ run[p].exit = "served"
    /\ ~manifest.ex

\* the driver's step from the preprocessor-mode key to the lookup of it
KeyCompared(p) == run[p].pc = "scan" /\ run'[p].pc = "fc_stat"

\* the direct attempt of the run got a key from the manifest, the serve of
\* that key returned, and the key just computed is another one
DirectKeyRefuted(p) ==
  /\ run[p].object_hash_from_manifest # NoKey
  /\ run[p].object_hash_from_manifest # run'[p].cached_obj_hash

\* C12: the driver unlinks the manifest exactly when the direct attempt got
\* a key from the manifest, that key was not served, and the key computed
\* from the preprocessed output differs from it; put_object_in_manifest is
\* then true for the serve step. In every other case the driver leaves the
\* manifest and put_object_in_manifest as they are, and a run removes the
\* manifest at no other step.
C12_ManifestUnlinkedIffKeyDiffers ==
  [][\A p \in Procs :
       /\ (KeyCompared(p) /\ DirectKeyRefuted(p))
            => /\ ~manifest'.ex
               /\ manifest.ex => ManifestName \in run'[p].removed
               /\ run'[p].put_object_in_manifest /\ run'[p].fc_put
               /\ HasStep(run[p], "manifest_get")
               /\ ~HasStep(run[p], "serve")
       /\ (KeyCompared(p) /\ ~DirectKeyRefuted(p))
            => /\ manifest' = manifest
               /\ run'[p].removed = run[p].removed
               /\ run'[p].put_object_in_manifest = run[p].put_object_in_manifest
       /\ (run'[p] # run[p] /\ manifest.ex /\ ~manifest'.ex)
            => KeyCompared(p) /\ DirectKeyRefuted(p)
    ]_vars

\* the manifest named a key whose object was gone, the preprocessed output
\* hashed to another key, and the run removed the manifest that existed
C12_Witness ==
  \E p \in Procs :
    /\ ManifestName \in run[p].removed
    /\ run[p].mode = "cpp" /\ run[p].pc = "fc_stat"
    /\ run[p].object_hash_from_manifest # NoKey
    /\ run[p].put_object_in_manifest
    /\ ~manifest.ex

\* the serve step of run p got through to the manifest update
ServeStep(p) ==
  /\ run[p].pc = "fc_finish"
  /\ \/ run'[p].pc = "mf_put"
     \/ run'[p].pc = "done" /\ run'[p].exit = "served"

\* C13 as stated: the serve step calls manifest_put iff direct mode is still
\* enabled, put_object_in_manifest is set and the include set is non-empty.
C13_PutIffDirectPutNonEmpty ==
  [][\A p \in Procs :
       ServeStep(p)
         => (run'[p].pc = "mf_put"
               <=> /\ run[p].enable_direct
                   /\ run[p].fc_put
                   /\ run[p].included_files # {})
    ]_vars

\* C13: the serve step calls manifest_put iff direct mode is still enabled,
\* put_object_in_manifest is set, the include table was created by the scan
\* of the preprocessed output (it may be empty) and CCACHE_READONLY is not
\* set; manifest_put is called at no other step.
C13_PutIffDirectPutTableNotReadOnly ==
  [][\A p \in Procs :
       /\ ServeStep(p)
            => (run'[p].pc = "mf_put"
                  <=> /\ run[p].enable_direct
                      /\ run[p].fc_put
                      /\ run[p].inc_alloc
                      /\ ~cfg["readonly"])
       /\ (HasStep(run'[p], "manifest_put") /\ ~HasStep(run[p], "manifest_put"))
            => /\ run[p].pc = "mf_put"
               /\ HasStep(run[p], "serve")
    ]_vars

\* a source that includes nothing was compiled and served, and the serve
\* wrote a manifest entry with an empty include set
C13_Witness ==
  \E p \in Procs :
    /\ cfg["noinc"]
    /\ run[p].pc = "done" /\ run[p].exit = "served"
    /\ HasStep(run[p], "manifest_put")
    /\ manifest.ex /\ manifest.by = Author(p)
    /\ \E e \in manifest.entries : e.inc = {}

\* run p's serve attempt in the given mode finds in this step that the file
\* it was about to link or copy is gone
Disappears(p, mode) ==
  /\ run[p].pc \in {"fc_copy", "fc_dep"}
  /\ run[p].mode = mode
  /\ <<"enoent", mode>> \in run'[p].notes \ run[p].notes

\* C14: a cached file that disappears before it is linked or copied makes
\* the serve attempt a miss: the run does not end at that step, after a
\* direct-mode attempt it goes on to the preprocessor and after a
\* preprocessor-mode attempt to the compilation, with the files of the entry
\* unlinked; a run that ends as served after such a miss has its output
\* file, complete, and after a preprocessor-mode miss it has compiled.
C14_DisappearedFileIsAMiss ==
  [][\A p \in Procs :
       /\ Disappears(p, "direct")
            => /\ run'[p].pc = "cpp" /\ run'[p].exit = "none"
               /\ ~fs'[cached_obj(run[p].cached_obj_hash)].ex
       /\ Disappears(p, "cpp")
            => /\ run'[p].pc = "compile" /\ run'[p].exit = "none"
               /\ ~fs'[cached_obj(run[p].cached_obj_hash)].ex
       /\ (/\ Ends(p) /\ run'[p].exit = "served"
           /\ \E n \in run'[p].notes : n[1] = "enoent" /\ n[2] \in {"direct", "cpp"})
            => /\ cfg["devnull"] \/ (fs'[output_obj(p)].ex /\ fs'[output_obj(p)].full)
               /\ <<"enoent", "cpp">> \in run'[p].notes
                    => HasStep(run'[p], "compile")
    ]_vars

\* the stored object was there when the direct-mode serve looked and gone
\* when it copied, with no failing system call in the run: the run went on
\* to preprocess and compile, and ended with its output file
C14_Witness ==
  \E p \in Procs :
    /\ <<"enoent", "direct">> \in run[p].notes
    /\ ~Noted(run[p], "ioerr")
    /\ HasStep(run[p], "cpp") /\ HasStep(run[p], "compile")
    /\ run[p].pc = "done" /\ run[p].exit = "served"
    /\ fs[output_obj(p)].ex /\ fs[output_obj(p)].full

\* the manifest entry run p's serve step adds
OwnEntry(p) == [key |-> run[p].cached_obj_hash, inc |-> run[p].included_files]

\* run p's manifest_put renames its rewritten manifest into place
ManifestReplaced(p) ==
  /\ run[p].pc = "mf_put" /\ run'[p].pc = "done"
  /\ manifest' # manifest

\* C15: with runs executing manifest_put on one manifest path at the same
\* time, the manifest under its final name is, whenever it exists, a complete
\* manifest written by one of the runs that called manifest_put; a writer
\* replaces it by the entries it read plus its own, so an entry another
\* writer added in between is lost; and a run whose manifest lookup finds no
\* matching entry goes on to the preprocessor with put_object_in_manifest
\* set, so that its serve step adds the entry again.
C15_ManifestWholeUnderConcurrentPut ==
  /\ [](manifest.ex
          => /\ manifest.full
             /\ manifest.entries # {}
             /\ manifest.by \in Procs
             /\ HasStep(run[manifest.by], "manifest_put")
             /\ ManifestName \in run[manifest.by].wrote)
  /\ [][\A p \in Procs :
          /\ ManifestReplaced(p)
               => /\ manifest'.ex /\ manifest'.full /\ manifest'.by = p
                  /\ manifest'.entries = run[p].mfbuf \cup {OwnEntry(p)}
          /\ (/\ run[p].pc = "direct" /\ run'[p].pc = "cpp"
              /\ HasStep(run'[p], "manifest_get"))
               => /\ run'[p].put_object_in_manifest
                  /\ run'[p].enable_direct
       ]_vars

\* both runs compiled, each for its own content of the include file, both
\* called manifest_put and wrote the manifest, and the manifest that is left
\* has one entry: the other writer's entry is lost
C15_Witness ==
  /\ \A p \in Procs :
       /\ run[p].pc = "done" /\ run[p].exit = "served"
       /\ HasStep(run[p], "compile")
       /\ ManifestName \in run[p].wrote
  /\ \A k \in Keys \ {NoKey} : fs[cached_obj(k)].ex
  /\ manifest.ex /\ Cardinality(manifest.entries) = 1

\* both invocations have been classified and hashed, and they differ in the
\* way named
Compared(how) == cmd.stage = "hashed" /\ cmd.how = how

\* C16: two invocations that differ only in the value of one -I, -D or -U
\* option, spaced or joined, and whose preprocessor output is the same, get
\* the same preprocessor-mode object key
C16_ValuesOfIDUNotInCppHash ==
  Compared("value") => cmd.ha.cpp = cmd.hb.cpp

\* the token the two invocations differ in, in the first and in the second
Changed == cmd.a[cmd.at]
ChangedTo == cmd.b[cmd.at]

\* both manifest keys were computed: no hash_file failed
DirectHashed == cmd.ha.direct.ok /\ cmd.hb.direct.ok

\* the changed token is neither a -L option nor what process_args took as the
\* argument of one
NotOfL == ~Starts(Changed, "-L") /\ ~ValueOf(cmd.ra, cmd.at, "-L")

\* the token passed on to the preprocessor just before the changed one
PassedBefore ==
  LET before == {k \in cmd.ra.kept : k < cmd.at}
  IN IF before = {} THEN cmd.a[1]
     ELSE cmd.a[CHOOSE k \in before : \A l \in before : l <= k]

\* both tokens name specs files that exist and hold the same bytes
SameSpecs ==
  /\ Starts(Changed, "--specs=") /\ Starts(ChangedTo, "--specs=")
  /\ Changed.v \in SpecsFiles /\ ChangedTo.v \in SpecsFiles
  /\ SpecsContent[Changed.v[1]] = SpecsContent[ChangedTo.v[1]]

\* C17 as stated: two invocations with the same source that differ in one
\* token passed on to the preprocessor, other than -L and its value, get
\* different direct-mode hashes (the hash taken as the sequence of fields)
C17_TokenChangesDirectHash ==
  Compared("token") /\ DirectHashed /\ NotOfL
    => cmd.ha.direct # cmd.hb.direct

\* C17: two invocations with the same source that differ in one token passed
\* on to the preprocessor get different direct-mode hashes, if the token is
\* neither -L nor its value, does not follow a bare -L among the arguments
\* passed on, and the two tokens are not --specs= options naming existing
\* files of equal contents
C17_HashedTokenChangesDirectHash ==
  Compared("token") /\ DirectHashed /\ NotOfL
    /\ ~Is(PassedBefore, "-L") /\ ~SameSpecs
    => cmd.ha.direct # cmd.hb.direct

\* a specs file replaced by a name that does not exist, in an invocation
\* that also passes -O2, gives another manifest key
C17_Witness ==
  /\ Compared("token") /\ DirectHashed /\ NotOfL
  /\ ~Is(PassedBefore, "-L") /\ ~SameSpecs
  /\ Starts(Changed, "--specs=")
  /\ \E k \in 2..Len(cmd.a) : Is(cmd.a[k], "-O2")
  /\ cmd.ha.direct # cmd.hb.direct

\* C18: two invocations that differ only in the presence or the value of one
\* -L option, spaced or joined, get the same manifest key and the same
\* object key
C18_LInNeitherHash ==
  Compared("L") => cmd.ha.direct = cmd.hb.direct /\ cmd.ha.cpp = cmd.hb.cpp

\* process_args has run on the invocation and has not given up
Accepted == cmd.stage # "argv" /\ cmd.ra.ok

Tokens(s) == {s[i] : i \in 1..Len(s)}

\* the -o tokens, spaced or joined, of an argument list
OutputTokens(s) == {t \in Tokens(s) : Starts(t, "-o")}

\* the tokens of the invocation that process_args took as the argument of
\* an option or of --ccache-skip
TakenAsValue == {cmd.a[x[1]] : x \in cmd.ra.vals}

StartWithCompilerAndHaveC ==
  /\ cmd.ra.preprocessor_args[1] = cmd.a[1]
  /\ cmd.ra.compiler_args[1] = cmd.a[1]
  /\ Opt("-c") \in Tokens(cmd.ra.preprocessor_args)
  /\ Opt("-c") \in Tokens(cmd.ra.compiler_args)

\* C19 as stated: for an accepted invocation preprocessor_args and
\* compiler_args start with argv[0], contain -c and contain no -o token
C19_ArgsKeepCompilerAndCDropO ==
  Accepted =>
    /\ StartWithCompilerAndHaveC
    /\ OutputTokens(cmd.ra.preprocessor_args) = {}
    /\ OutputTokens(cmd.ra.compiler_args) = {}

\* C19: for an accepted invocation preprocessor_args and compiler_args start
\* with argv[0] and contain -c, no -o option of the invocation is passed on,
\* and every -o token they contain is a token the classifier took as the
\* argument of another option
C19_ArgsKeepCompilerAndCDropOutputOption ==
  Accepted =>
    /\ StartWithCompilerAndHaveC
    /\ \A k \in 2..Len(cmd.a) :
         Starts(cmd.a[k], "-o") /\ Boundary(cmd.ra, k) => k \notin cmd.ra.kept
    /\ OutputTokens(cmd.ra.preprocessor_args) \subseteq TakenAsValue
    /\ OutputTokens(cmd.ra.compiler_args) \subseteq TakenAsValue

\* an accepted invocation with a -o option that was dropped and a -o token
\* that was passed on as the argument of another option
C19_Witness ==
  /\ Accepted
  /\ \E k \in 2..Len(cmd.a) :
       Starts(cmd.a[k], "-o") /\ Boundary(cmd.ra, k) /\ k \notin cmd.ra.kept
  /\ OutputTokens(cmd.ra.preprocessor_args) # {}
  /\ OutputTokens(cmd.ra.compiler_args) # {}
  /\ StartWithCompilerAndHaveC

\* the options the walk never supports
FatalOptions ==
  {"-E", "-M", "-MM", "--coverage", "-fbranch-probabilities", "-fprofile-arcs",
   "-fprofile-generate", "-fprofile-use", "-ftest-coverage", "-save-temps"}

\* the positions of the invocation the walk classified as options of their
\* own, not as the argument of an option before them
ClassifiedAt == {k \in cmd.ra.seen : Boundary(cmd.ra, k)}

\* the walk has classified a fatal-unsupported token
FatalClassified ==
  /\ cmd.stage # "argv"
  /\ \/ \E k \in ClassifiedAt :
          cmd.a[k].o = "@" \/ (\E s \in FatalOptions : cmd.a[k] = Opt(s))
     \/ \E k, l \in ClassifiedAt :
          k < l /\ cmd.a[k] = Opt("-arch") /\ cmd.a[l] = Opt("-arch")

\* the run of process p has touched neither the manifest nor the cache nor
\* any other file, and has taken no step of the lookup
NothingDone(p) ==
  /\ run[p].steps = << >> /\ run[p].notes = {}
  /\ run[p].wrote = {} /\ run[p].removed = {}
  /\ run[p].manifest_path = FALSE
  /\ run[p].object_hash_from_manifest = NoKey /\ run[p].cached_obj_hash = NoKey
  /\ manifest = NoManifest
  /\ \A n \in Names : fs[n] = Absent

\* C20: when the walk classifies a fatal-unsupported token the run gives up
\* to the real compiler, counted as unsupported, before any hash is computed
\* and without reading or creating a manifest or a cache entry
C20_FatalTokenGivesUpBeforeHash ==
  FatalClassified =>
    /\ ~cmd.ra.ok /\ cmd.ra.why = "unsupported"
    /\ run[1].pc = "done" /\ run[1].exit = "fallback"
    /\ NothingDone(1)
    /\ cmd.stage = "classified" /\ cmd.ha = NoHashes /\ cmd.hb = NoHashes

\* a run given up because of a response file or of -save-temps that comes
\* after options that were passed on
C20_Witness ==
  /\ FatalClassified
  /\ run[1].pc = "done" /\ run[1].exit = "fallback"
  /\ cmd.ra.kept # {}
  /\ \/ \E k \in ClassifiedAt : cmd.a[k].o = "@" /\ k > 2
     \/ \E k \in ClassifiedAt : cmd.a[k] = Opt("-save-temps") /\ k > 2

\* the steps of kind what that run r took, each with the mode it was in
StepsOf(r, what) == {r.steps[i] : i \in {j \in 1..Len(r.steps) : r.steps[j][1] = what}}

\* run p has compiled, left an object in the cache and was served by the
\* from_cache call that follows to_cache, and by no other
ServedAfterCompileOnly(p) ==
  /\ HasStep(run[p], "compile")
  /\ \E k \in Keys : cached_obj(k) \in run[p].wrote
  /\ StepsOf(run[p], "serve") = {<<"serve", "compiled">>}

\* with CCACHE_RECACHE set no from_cache call before the compilation gets as
\* far as looking for the entry, let alone serving it
NoEarlyHit(p) ==
  /\ StepsOf(run[p], "lookup") \subseteq {<<"lookup", "compiled">>}
  /\ StepsOf(run[p], "serve") \subseteq {<<"serve", "compiled">>}

TmpOf(p) == {n \in TmpNames : n[2] = p}

\* C23: when a run gives up and the real compiler is executed in its place,
\* none of the temporary files the run created is left
C23_GiveUpLeavesNoTemporary ==
  \A p \in Procs :
    run[p].pc = "done" /\ run[p].exit = "fallback" =>
      \A n \in TmpOf(p) : ~fs[n].ex

\* to_cache of run p looks at what the compiler left, after a compilation
\* that wrote to its standard output
ChecksAfterStdout(p) ==
  /\ run[p].pc = "tc_check" /\ run[p].cc_stdout
  /\ run'[p] # run[p]

\* C24: when the real compiler has written to its standard output, the run
\* gives up to the fallback and has stored nothing in the cache: no cache
\* file was created or replaced by it and none changes in the step
C24_CompilerStdoutGivesUpStoresNothing ==
  [][\A p \in Procs :
       ChecksAfterStdout(p) =>
         /\ run'[p].pc = "done" /\ run'[p].exit = "fallback"
         /\ run'[p].wrote = {}
         /\ \A n \in CacheNames : fs'[n] = fs[n]
         /\ manifest' = manifest]_vars

\* a run that compiled, whose compiler wrote to stdout, and that gave up with
\* no entry under any key in the cache
C24_Witness ==
  /\ run[1].pc = "done" /\ run[1].exit = "fallback"
  /\ HasStep(run[1], "compile")
  /\ Noted(run[1], "stdout")
  /\ run[1].wrote = {}
  /\ \A n \in CacheNames : ~fs[n].ex

\* run p was started with direct mode on and has had it disabled since
Poisoned(p) ==
  /\ run[p].pc \notin {"idle", "done"}
  /\ ~cfg["nodirect"] /\ ~run[p].enable_direct

\* the step of run p in which direct mode is disabled
Poisons(p) ==
  /\ run[p].pc \notin {"idle", "done"} /\ run[p].enable_direct
  /\ run'[p].pc # "done" /\ ~run'[p].enable_direct

\* the last step of run p, as a run without direct mode ends: served by the
\* preprocessor-mode or the post-compile serve with the manifest left alone,
\* or ended after the preprocessor or the compiler was run
EndsAsWithoutDirect(p) ==
  /\ ~HasStep(run'[p], "manifest_put")
  /\ ManifestName \notin run'[p].wrote
  /\ manifest' = manifest
  /\ HasStep(run'[p], "cpp")
  /\ run'[p].exit = "served" =>
       \E m \in {"cpp", "compiled"} :
         EndsWith(run'[p].steps, << <<"lookup", m>>, <<"serve", m>> >>)
  /\ run'[p].exit = "status" => HasStep(run'[p], "compile")

\* C28: disabling direct mode during a run never ends the run: the direct
\* hash and the scan of the preprocessed output end a run only when
\* something outside the tool failed, the step that disables direct mode
\* goes on to the preprocessor attempt, and the run then ends as a run
\* without direct mode does
C28_PoisoningNeverAborts ==
  [][\A p \in Procs :
       /\ run[p].pc \in {"direct", "scan"} /\ run'[p].pc = "done" =>
            <<"ioerr", run[p].pc>> \in run'[p].notes
       /\ Poisons(p) =>
            /\ run'[p].exit = "none"
            /\ \/ run'[p].pc = "cpp"
               \/ run'[p].pc = "fc_stat" /\ run'[p].mode = "cpp"
       /\ Poisoned(p) /\ Ends(p) => EndsAsWithoutDirect(p)]_vars

\* a run whose include file reported a time macro while direct mode was
\* on, and which compiled and was served without touching the manifest
C28_Witness ==
  /\ ~cfg["nodirect"]
  /\ run[1].pc = "done" /\ run[1].exit = "served"
  /\ Noted(run[1], "inc_time")
  /\ HasStep(run[1], "direct") /\ HasStep(run[1], "compile")
  /\ ~HasStep(run[1], "manifest_put")

\* what cached_stderr of key k holds, nothing when the file does not exist
StoredStderr(f, k) == IF f[cached_stderr(k)].ex THEN f[cached_stderr(k)].data ELSE << >>

\* to_cache of run p, after a compilation that succeeded and left an object,
\* has merged the two stderr files
Merges(p) == run[p].pc = "tc_check" /\ run'[p].pc = "tc_stderr"

\* to_cache of run p has stored the merged stderr, or has had nothing to
\* store
StoresStderr(p) == run[p].pc = "tc_stderr" /\ run'[p].pc = "tc_obj"

\* from_cache of run p serves the entry
Serves(p) == run[p].pc = "fc_finish" /\ run'[p].pc \in {"mf_put", "done"}

IsNumber(s) ==
  /\ s # Unset
  /\ Len(s) >= 1
  /\ \/ \A i \in 1..Len(s) : s[i] \in Digits
     \/ /\ Len(s) >= 2
        /\ s[1] \in {"-", "+"}
        /\ \A i \in 2..Len(s) : s[i] \in Digits

\* The digits of the number s that follow its sign and its leading zeros.
RECURSIVE Significant(_)
Significant(s) ==
  IF s = << >> THEN s
  ELSE IF s[1] \in {"-", "+", "0"} THEN Significant(Tail(s))
  ELSE s

\* The number s is less than 1.
BelowOne(s) == IsNumber(s) /\ (s[1] = "-" \/ Significant(s) = << >>)

\* The number s is greater than 8.
AboveEight(s) ==
  /\ IsNumber(s)
  /\ s[1] # "-"
  /\ Len(Significant(s)) >= 2 \/ Significant(s) = << "9" >>

\* The path p has exactly n single-character directories under the cache
\* directory, and then the file.
HasLevels(p, n) ==
  /\ Len(p) = Len(cache_dir) + n + 1
  /\ \A i \in 1..n : Len(p[Len(cache_dir) + i]) = 1

\* C25: whatever the levels setting is, the number of levels in use is
\* between 1 and 8; a setting below 1 gives 1 level, a setting above 8 gives
\* 8 levels, and a derived path has exactly that many single-character
\* directories.
C25_LevelsClampedToOneEight ==
  /\ lev.stage \in {"levels", "path", "failed"} =>
       /\ lev.nlevels \in 1..8
       /\ BelowOne(lev.setting) => lev.nlevels = 1
       /\ AboveEight(lev.setting) => lev.nlevels = 8
  /\ lev.stage = "path" => HasLevels(lev.path, lev.nlevels)

\* The number of levels is between 1 and 8 and a derived path has that many
\* single-character directories.
LevelsInRange ==
  /\ lev.nlevels \in 1..8
  /\ lev.stage = "path" => HasLevels(lev.path, lev.nlevels)

\* A setting above 8 that an int holds gives 8 levels.
AboveEightInRange ==
  /\ lev.stage \in {"levels", "path", "failed"}
  /\ AboveEight(lev.setting)
  /\ Len(Significant(lev.setting)) < 10
  => lev.nlevels = 8


\* The scan of the file has gone into its loop.
Scanning == scn.stage \in {"scan", "done", "failed"} /\ scn.data # << >>

\* data <= p <= q <= end
PointersInOrder ==
  /\ 0 <= scn.p
  /\ scn.p <= scn.q
  /\ scn.q <= Len(scn.data)

\* What was fed to the hash covers the bytes before p once and in file
\* order: each feed starts where the one before it ended.
FedOnceInOrder ==
  /\ \A i \in 1..Len(scn.fed) :
       /\ scn.fed[i].from = (IF i = 1 THEN 0 ELSE scn.fed[i - 1].to)
       /\ scn.fed[i].from <= scn.fed[i].to
  /\ scn.fed # << >> =>
       /\ scn.stage = "scan" => scn.fed[Len(scn.fed)].to = scn.p
       /\ scn.stage = "done" => scn.fed[Len(scn.fed)].to = Len(scn.data)

\* The feed f is what lies between the quotes of a directive.
QuotedPath(f) ==
  /\ f.from >= 1
  /\ At(scn.data, f.from - 1) = "\""
  /\ \A k \in f.from..(f.to - 1) : At(scn.data, k) # "\""
  /\ f.to = Len(scn.data) \/ At(scn.data, f.to) = "\""

\* Bytes outside quoted paths are fed as they are; a quoted path is fed in
\* its form relative to the base directory.
FedAsClaimed ==
  \A i \in 1..Len(scn.fed) :
    LET f == scn.fed[i]
    IN  IF f.kind = "raw"
          THEN f.bytes = Span(scn.data, f.from, f.to)
          ELSE /\ QuotedPath(f)
               /\ f.bytes = RelativeTo(scn.base, Span(scn.data, f.from, f.to))

\* As FedAsClaimed, with a quoted path taken up to its first NUL byte.
FedUpToNul ==
  \A i \in 1..Len(scn.fed) :
    LET f == scn.fed[i]
    IN  IF f.kind = "raw"
          THEN f.bytes = Span(scn.data, f.from, f.to)
          ELSE /\ QuotedPath(f)
               /\ f.bytes = RelativeTo(scn.base,
                                       x_strndup(Span(scn.data, f.from, f.to)))

\* The offset k lies in a quoted path that was fed.
InFedPath(k) ==
  \E i \in 1..Len(scn.fed) :
    scn.fed[i].kind = "path" /\ scn.fed[i].from <= k /\ k < scn.fed[i].to

\* A directive the scan recognises has its opening quote as the last byte.
OpeningQuoteLast ==
  \E k \in 0..(Len(scn.data) - 8) :
    /\ AtDirective(scn.data, k)
    /\ ~InFedPath(k)
    /\ ToQuote(scn.data, k) = Len(scn.data) - 1

\* C30: while process_preprocessed_file scans, data <= p <= q <= end; the
\* bytes outside the quoted paths of the directives are fed to the hash once
\* and in file order, each quoted path in its form relative to the base
\* directory; a scan that comes to its end met no directive whose opening
\* quote is the last byte of the file.
C30_ScannerSinglePass ==
  Scanning =>
    /\ PointersInOrder
    /\ FedOnceInOrder
    /\ FedAsClaimed
    /\ scn.stage = "done" => ~OpeningQuoteLast

\* The part of C30 that holds: the pointers are in order while the scan goes
\* on, the feeds cover the file once and in order with quoted paths taken up
\* to their first NUL, and a directive with its opening quote last fails.
ScannerWhileScanning ==
  Scanning =>
    /\ scn.stage # "failed" => PointersInOrder
    /\ FedOnceInOrder
    /\ FedUpToNul
    /\ scn.stage = "done" => ~OpeningQuoteLast


\* An invocation has been classified: a is its argv, r what process_args
\* made of it.
Classified == cmd.stage = "classified"

\* The positions of a that process_args classified as arguments of their
\* own and that are no options.
NonOptions(a, r) == {k \in 2..Len(a) : Boundary(r, k) /\ ~Dash(a[k])}

\* Those of them that are regular files.
FileArgs(a, r) == {k \in NonOptions(a, r) : a[k] \in RegularFiles}

\* Those of them that are regular files with a known source extension.
SourceArgs(a, r) == {k \in FileArgs(a, r) : language_for_file(a[k]) # ""}

Least(S) == CHOOSE k \in S : \A j \in S : k <= j

XOpts(a, r) == {k \in 2..Len(a) : Boundary(r, k) /\ Starts(a[k], "-x")}

\* The language the -x option at position k names.
XLanguage(a, k) ==
  IF a[k] = Opt("-x") THEN (IF k < Len(a) THEN a[k + 1] ELSE Null)
  ELSE Rest(a[k])

\* The positions the -x options at the positions X take up, their arguments
\* included.
Taken(a, X) == X \cup {k + 1 : k \in {j \in X : a[j] = Opt("-x") /\ j < Len(a)}}

\* a without the positions D.
RECURSIVE Without(_, _, _)
Without(a, D, k) ==
  IF k > Len(a) THEN << >>
  ELSE (IF k \in D THEN << >> ELSE << a[k] >>) \o Without(a, D, k + 1)

\* What process_args makes of a without the -x options at the positions X.
WithoutX(a, X) ==
  process_args(Without(a, Taken(a, X), 1), DirectFromEnv, cfg["unify"], cfg["cpp2"])

\* Two results of process_args agree in what the run uses of them.
SameResult(r, s) ==
  /\ r.ok = s.ok
  /\ r.why = s.why
  /\ r.input_file = s.input_file
  /\ r.output_obj = s.output_obj
  /\ r.i_extension = s.i_extension
  /\ r.direct_i_file = s.direct_i_file
  /\ r.preprocessor_args = s.preprocessor_args
  /\ r.compiler_args = s.compiler_args

\* The invocation has an input file and the last -x before it says none.
LastXNone(a, r) ==
  /\ FileArgs(a, r) # {}
  /\ LET before == {k \in XOpts(a, r) : k < Least(FileArgs(a, r))}
     IN  /\ before # {}
         /\ \A k \in before :
              (\A j \in before : j <= k) => XLanguage(a, k) = Plain("none", "")

\* The invocation ends in a -x that has no argument.
TrailingX(a, r) == Len(a) \in XOpts(a, r) /\ a[Len(a)] = Opt("-x")

HasX(args) == \E k \in 1..Len(args) : Starts(args[k], "-x")

\* C26: when the last -x before the input file is -x none, process_args
\* gives what it gives for the invocation without any -x: the language is
\* that of the extension and neither argument list has a -x; and the -x
\* options after the input file change nothing.
C26_XNoneDeducesFromExtension ==
  Classified /\ FileArgs(cmd.a, cmd.ra) # {} /\ ~TrailingX(cmd.a, cmd.ra) =>
    LET a == cmd.a
        r == cmd.ra
        i == Least(FileArgs(a, r))
    IN  /\ LastXNone(a, r) =>
             /\ SameResult(r, WithoutX(a, XOpts(a, r)))
             /\ r.ok =>
                  /\ r.i_extension = languages[LangKey(language_for_file(a[i]))]
                  /\ r.direct_i_file = (a[i].v[2] \in {"i", "ii", "mi", "mii"})
                  /\ ~HasX(r.preprocessor_args)
                  /\ ~HasX(r.compiler_args)
        /\ SameResult(r, WithoutX(a, {k \in XOpts(a, r) : k > i}))

\* An accepted invocation with -x none as the last -x before the input file,
\* another language named before it, and one named after the input file.
C26_Witness ==
  /\ Classified
  /\ cmd.ra.ok
  /\ LastXNone(cmd.a, cmd.ra)
  /\ \E k \in XOpts(cmd.a, cmd.ra) : XLanguage(cmd.a, k) # Plain("none", "")


\* The languages whose files are preprocessed already.
PreprocessedLanguages ==
  {"cpp-output", "c++-cpp-output", "objc-cpp-output", "objc++-cpp-output"}

\* The language of an invocation with an input file: that of the last -x
\* before the input file unless it says none, else that of the extension.
LanguageOf(a, r) ==
  LET i == Least(FileArgs(a, r))
      before == {k \in XOpts(a, r) : k < i}
      last == CHOOSE k \in before : \A j \in before : j <= k
  IN  IF before # {} /\ XLanguage(a, last) # Plain("none", "")
        THEN XLanguage(a, last).v[1]
        ELSE language_for_file(a[i])

\* The run of the invocation is past the first half of
\* get_object_name_from_cpp.
PastCpp(r) == HasStep(r, "cpp") \/ HasStep(r, "cpp_skipped")

\* The run skipped the preprocessor: it did not execute it, it made no
\* preprocessed file of its own, and while it scans the input file in its
\* place the file for the preprocessor's stderr is empty.
SkippedCpp(r) ==
  /\ ~HasStep(r, "cpp")
  /\ ~fs[path_stdout(1)].ex
  /\ r.pc = "scan" => fs[path_stderr(1)].ex /\ fs[path_stderr(1)].data = << >>

\* C27: every accepted invocation whose input file has the extension i skips
\* the preprocessor.
C27_DotISkipsPreprocessor ==
  /\ Classified
  /\ cmd.ra.ok
  /\ cmd.ra.input_file.v[2] = "i"
  /\ PastCpp(run[1])
  => SkippedCpp(run[1])

\* C27 as the code has it: an accepted invocation skips the preprocessor
\* exactly when its language, named by -x or deduced from the extension, is
\* one of the preprocessed languages.
C27_PreprocessedLanguageSkipsPreprocessor ==
  /\ Classified
  /\ cmd.ra.ok
  /\ PastCpp(run[1])
  => IF LanguageOf(cmd.a, cmd.ra) \in PreprocessedLanguages
       THEN SkippedCpp(run[1])
       ELSE HasStep(run[1], "cpp")

\* A run that scans its input file hello.i in the place of the
\* preprocessor's output.
C27_Witness ==
  /\ Classified
  /\ cmd.ra.ok
  /\ cmd.ra.input_file.v[2] = "i"
  /\ run[1].pc = "scan"
  /\ HasStep(run[1], "cpp_skipped")


\* both object keys were computed: no hash_file failed
CppHashed == cmd.ha.cpp.ok /\ cmd.hb.cpp.ok

\* the options that only the preprocessor looks at and that take a value
PreprocessorOnly ==
  {"-D", "-I", "-U", "-idirafter", "-imacros", "-imultilib", "-include",
   "-iprefix", "-iquote", "-isysroot", "-isystem", "-iwithprefix",
   "-iwithprefixbefore"}

\* the changed token is neither a preprocessor-only option nor what
\* process_args took as the value of one
NotPreprocessorOnly ==
  /\ \A o \in PreprocessorOnly : ~Starts(Changed, o) /\ ~Is(Changed, o)
  /\ \A o \in PreprocessorOnly : ~ValueOf(cmd.ra, cmd.at, o)

\* the changed token does not follow a bare -L or a bare preprocessor-only
\* option among the arguments passed on, and the two tokens are not --specs=
\* options naming files of equal contents
NotValueAmongPassed ==
  /\ ~SameSpecs
  /\ \A o \in PreprocessorOnly \cup {"-L"} : ~Is(PassedBefore, o)

\* C32: two invocations with the same preprocessor output that differ in one
\* argument passed on, which is neither -L nor a preprocessor-only option
\* nor the value of either, get different preprocessor-mode object keys,
\* wherever the argument stands, also directly after -nostdinc
C32_OtherArgumentChangesObjectKey ==
  Compared("token") /\ CppHashed /\ NotOfL /\ NotPreprocessorOnly
    /\ NotValueAmongPassed
    => cmd.ha.cpp # cmd.hb.cpp

\* the part of C32 that holds: the same, for an argument that does not
\* follow -nostdinc or -nostdinc++ among the arguments passed on
OtherArgumentNotAfterNostdinc ==
  Compared("token") /\ CppHashed /\ NotOfL /\ NotPreprocessorOnly
    /\ NotValueAmongPassed
    /\ ~Is(PassedBefore, "-nostdinc") /\ ~Is(PassedBefore, "-nostdinc++")
    => cmd.ha.cpp # cmd.hb.cpp


\* run p is between the driver's call of to_cache and the end of the serve
\* that follows it
Compiling(p) ==
  \/ run[p].pc \in {"compile", "cc_run", "tc_check", "tc_stderr", "tc_obj"}
  \/ run[p].mode = "compiled"
       /\ run[p].pc \in {"fc_stat", "fc_copy", "fc_dep", "fc_finish", "mf_put"}

\* the final names of the cache entry of key k
EntryNames(k) == {cached_obj(k), cached_stderr(k), cached_dep(k)}

\* C36: from the compile step on, the cached paths of a run are those of the
\* object key it computed from its own preprocessor output, and what the run
\* then stores in the cache it stores under that key, also when the
\* manifest had given another key
C36_CompileStoresUnderOwnKey ==
  [][\A p \in Procs :
       Compiling(p) =>
         /\ run[p].cached_obj_hash = ObjKey(run[p].cppver)
         /\ (run'[p].wrote \ run[p].wrote) \ {ManifestName}
              \subseteq EntryNames(ObjKey(run[p].cppver))]_vars

\* a run stored its object after the manifest had given it another key
C36_Witness ==
  \E p \in Procs :
    /\ run[p].mode = "compiled"
    /\ run[p].pc = "fc_stat"
    /\ run[p].object_hash_from_manifest \notin {NoKey, run[p].cached_obj_hash}
    /\ cached_obj(run[p].cached_obj_hash) \in run[p].wrote


(* ---------------- C37: direct mode within one run ---------------------- *)
\* the run of process p is under way
UnderWay(p) == run[p].pc \notin {"idle", "done"}

\* the key of run r's preprocessor output with the includes r collected
CppEntry(r) == [key |-> ObjKey(r.cppver), inc |-> r.included_files]

\* C37: within one run the direct-mode flag only ever goes from on to off.
\* A run starts with no manifest path, no include table and no include.
\* Whenever from_cache goes on to manifest_put, direct mode is still on, the
\* manifest path is the one this run's direct attempt computed before it
\* called manifest_get, the include table was allocated by this run's scan
\* and the key of the cached paths is the key of this run's preprocessor
\* output; the entry manifest_put then adds to the manifest it read pairs that
\* key with the includes the run collected.
C37_DirectModeMonotoneManifestPathDefined ==
  [][\A p \in Procs :
       /\ (UnderWay(p) /\ run'[p].pc # "done" /\ ~run[p].enable_direct)
            => ~run'[p].enable_direct
       /\ (~UnderWay(p) /\ run'[p].pc \notin {"idle", "done"})
            => /\ ~run'[p].manifest_path
               /\ ~run'[p].inc_alloc
               /\ run'[p].included_files = {}
       /\ run'[p].pc = "mf_put"
            => /\ run'[p].enable_direct
               /\ run'[p].manifest_path
               /\ HasStep(run'[p], "manifest_get")
               /\ PastCpp(run'[p])
               /\ run'[p].inc_alloc
               /\ run'[p].cached_obj_hash = ObjKey(run'[p].cppver)
       /\ (run[p].pc = "mf_put" /\ run'[p].pc = "done" /\ manifest' # manifest)
            => /\ manifest'.ex
               /\ manifest'.entries = run[p].mfbuf \cup {CppEntry(run[p])}
    ]_vars

\* C37 witness: a run whose direct attempt found the manifest without a
\* matching entry has served the result and is about to add the include it
\* collected to the manifest
C37_Witness ==
  \E p \in Procs :
    /\ run[p].pc = "mf_put"
    /\ run[p].included_files # {}
    /\ HasStep(run[p], "compile")


(* ---------------- C38: every run ends, once ---------------------------- *)
\* runs one after the other while files are removed from the cache, the
\* process scheduled until its run has ended
NextLive ==
  \/ RunStep(1)
  \/ Cleanup

SpecLive == Init /\ [][NextLive]_vars /\ WF_vars(RunStep(1))

\* how often run r has taken one of the steps in whats
Times(r, whats) == Cardinality({i \in 1..Len(r.steps) : r.steps[i][1] \in whats})

\* no step of the driver is taken twice in the same mode
NoStepTwice(r) ==
  \A i, j \in 1..Len(r.steps) : r.steps[i] = r.steps[j] => i = j

\* the ways a run can end: exit(0) from from_cache, exit with the compiler's
\* failure status, fatal(), and failed()'s exec of the real compiler
TerminalOutcomes == {"served", "status", "fatal", "fallback"}

\* a run under way has no outcome, an ended one has exactly one of the four,
\* and no run repeats a step, preprocesses twice or compiles twice
OneOutcomeNoRetry ==
  \A p \in Procs :
    /\ UnderWay(p) => run[p].exit = "none"
    /\ run[p].pc = "done" => run[p].exit \in TerminalOutcomes
    /\ run[p].exit = "served" => run[p].code = 0
    /\ NoStepTwice(run[p])
    /\ Times(run[p], {"cpp", "cpp_skipped"}) <= 1
    /\ Times(run[p], {"compile"}) <= 1

\* C38: every run that has started ends, in exactly one of the four terminal
\* outcomes; until then it takes no step of the driver twice, so it runs the
\* preprocessor at most once and the compiler at most once, and an ended run
\* keeps its outcome.
C38_EveryRunEndsOnce ==
  /\ []OneOutcomeNoRetry
  /\ \A p \in Procs : UnderWay(p) ~> run[p].pc = "done"
  /\ [][\A p \in Procs :
          (run[p].pc = "done" /\ run'[p].pc = "done")
            => run'[p].exit = run[p].exit]_vars

\* C38 witness: a run has ended by serving the result after one execution of
\* the preprocessor and one of the compiler
C38_Witness ==
  \E p \in Procs :
    /\ run[p].pc = "done" /\ run[p].exit = "served"
    /\ Times(run[p], {"cpp"}) = 1
    /\ Times(run[p], {"compile"}) = 1


(* ---------------- C35: the input file is left alone -------------------- *)
\* C35: the file the user names as input exists, with the bytes the user gave
\* it, in every state: before, during and after a run, whether the run
\* preprocesses it or takes it as the intermediate file, and whether the run
\* serves the result, passes on a failed compilation or gives up.
C35_InputFileNeverUnlinked ==
  /\ fs[input_file] = SourceFile
  /\ \A p \in Procs :
       (run[p].i_tmpfile /\ run[p].direct_i_file)
         => i_tmpfile_path(p, run[p]) = input_file

\* C35 witness: a run that took the preprocessed input file as its
\* intermediate file has compiled it and ended, and the input file is there
C35_Witness ==
  /\ run[1].pc = "done"
  /\ HasStep(run[1], "cpp_skipped")
  /\ HasStep(run[1], "compile")
  /\ fs[input_file].ex


(* ---------------- C31: what keeps a run out of direct mode ------------- *)
MaxDirectArgs == 2

\* the tokens such an invocation is drawn from: the two kinds of option that
\* are too hard for direct mode, the two -Wp, forms that only name the
\* dependency file, --ccache-skip and an option of no concern
DirectAlphabet ==
  {Opt("-Xpreprocessor"), T("-Wp,", ValueA), T("-Wp,-MD,", ValueA),
   T("-Wp,-MMD,", ValueA), Opt("--ccache-skip"), Opt("-O2")}

DirectArgvs ==
  { << Plain("gcc", "") >> \o a \o << Opt("-c"), Plain("hello", "c") >> :
      a \in UNION {[1..n -> DirectAlphabet] : n \in 0..MaxDirectArgs} }

\* the environment with CCACHE_NODIRECT and CCACHE_UNIFY set or not
DirectConfigs ==
  {c \in AllConfigs : \A f \in Flags : c[f] => f \in {"nodirect", "unify"}}

\* one invocation on an empty cache under such an environment
InitDirect ==
  /\ cfg \in DirectConfigs
  /\ conc = FALSE
  /\ InitCommon
  /\ cmd \in {[NoArgs EXCEPT !.stage = "argv", !.a = a] : a \in DirectArgvs}
  /\ lev = NoLevels
  /\ scn = NoScan

SpecDirect == InitDirect /\ [][NextInput]_vars

\* the token is one of the options the claim names
NamedTooHard(tok) == tok = Opt("-Xpreprocessor") \/ tok.o = "-Wp,"

\* the environment turns direct mode off
OffByEnv == cfg["nodirect"] \/ cfg["unify"]

\* the run has neither looked for a manifest nor written one
PreprocessorModeOnly ==
  /\ ~HasStep(run[1], "manifest_get")
  /\ ~HasStep(run[1], "manifest_put")
  /\ run[1].pc # "mf_put"
  /\ manifest = NoManifest

\* C31 as stated: an invocation that contains -Xpreprocessor or a -Wp, option
\* other than the two dependency forms anywhere, or that runs with unify mode
\* or the no-direct setting on, never reads or writes a manifest.
C31_ContainsTooHardStaysPreprocessorOnly ==
  (OffByEnv \/ \E j \in 2..Len(cmd.a) : NamedTooHard(cmd.a[j]))
    => PreprocessorModeOnly

\* the positions of the invocation that follow a --ccache-skip which is not
\* itself skipped
RECURSIVE SkippedFrom(_, _)
SkippedFrom(a, j) ==
  IF j >= Len(a) THEN {}
  ELSE IF a[j] = Opt("--ccache-skip") THEN {j + 1} \cup SkippedFrom(a, j + 2)
  ELSE SkippedFrom(a, j + 1)

\* C31: an invocation with -Xpreprocessor or a -Wp, option other than the two
\* dependency forms at a position that does not follow --ccache-skip, or one
\* that runs with unify mode or the no-direct setting on, never reads or
\* writes a manifest.
C31_ClassifiedTooHardStaysPreprocessorOnly ==
  (OffByEnv \/ \E j \in (2..Len(cmd.a)) \ SkippedFrom(cmd.a, 2) :
                  NamedTooHard(cmd.a[j]))
    => PreprocessorModeOnly

\* C31 witness: an invocation with -Xpreprocessor under the default
\* environment has been served after preprocessing and compiling
C31_Witness ==
  /\ ~OffByEnv
  /\ \E j \in (2..Len(cmd.a)) \ SkippedFrom(cmd.a, 2) : cmd.a[j] = Opt("-Xpreprocessor")
  /\ run[1].pc = "done" /\ run[1].exit = "served"
  /\ HasStep(run[1], "compile")


(* ---------------- C33: the stderr is stored before the object ---------- *)
\* nothing has removed a file of the cache so far
NothingRemoved ==
  /\ cleanups = 0
  /\ \A p \in Procs : run[p].removed \cap CacheNames = {}

\* the compilation of process a under key k produced diagnostics: its merged
\* stderr is waiting to be stored, or a has stored it
ProducedDiagnostics(a, k) ==
  \/ fs[tmp_stderr(a)].ex /\ fs[tmp_stderr(a)].data # << >>
  \/ cached_stderr(k) \in run[a].wrote

\* the cached object of key k is there and comes from a compilation that
\* produced diagnostics
ObjectWithDiagnostics(f, k) ==
  /\ f[cached_obj(k)].ex
  /\ f[cached_obj(k)].by \in Procs
  /\ ProducedDiagnostics(f[cached_obj(k)].by, k)

\* while nothing is removed, a cached object whose compilation produced
\* diagnostics has its stderr file beside it
StderrBesideObject ==
  NothingRemoved
    => \A k \in Keys :
         ObjectWithDiagnostics(fs, k)
           => /\ fs[cached_stderr(k)].ex
              /\ fs[cached_stderr(k)].full
              /\ fs[cached_stderr(k)].data = CcErrData(TRUE, fs[cached_obj(k)].data[1].v)

\* C33: as long as nothing removes files of the cache, a cached object whose
\* compilation produced diagnostics always has the stderr file of that
\* compilation beside it, the stderr file once there stays, and a run that
\* serves such an object without compiling sends the diagnostics to the
\* user's stderr.
C33_ObjectPresentImpliesStderrPresent ==
  /\ []StderrBesideObject
  /\ [][\A q \in Procs : \A k \in Keys :
          /\ (NothingRemoved' /\ fs[cached_stderr(k)].ex) => fs'[cached_stderr(k)].ex
          /\ ( /\ NothingRemoved'
               /\ run[q].pc = "fc_finish" /\ run'[q].pc # "fc_finish"
               /\ run[q].mode # "compiled"
               /\ run[q].cached_obj_hash = k
               /\ ObjectWithDiagnostics(fs, k) )
             => /\ HasStep(run'[q], "serve")
                /\ run'[q].fd2 = run[q].fd2 \o fs[cached_stderr(k)].data
                /\ fs[cached_stderr(k)].data # << >>
     ]_vars

\* C33 witness: with nothing removed, a run has served an object another
\* run's compilation stored with diagnostics, and has passed them on
C33_Witness ==
  /\ NothingRemoved
  /\ \E q \in Procs : \E k \in Keys :
       /\ run[q].pc = "done" /\ run[q].exit = "served"
       /\ ~HasStep(run[q], "compile")
       /\ ObjectWithDiagnostics(fs, k)
       /\ fs[cached_obj(k)].by # q
       /\ run[q].fd2 # << >>


(* ---------------- C34: two runs that both compile ---------------------- *)
\* no system call has failed in any run and nothing was removed by cleanup
NoFault ==
  /\ cleanups = 0
  /\ \A p \in Procs : ~Noted(run[p], "ioerr")

\* run r has compiled and its compiler succeeded: status 0, nothing on
\* stdout, a non-empty object
CompiledWell(r) ==
  /\ HasStep(r, "compile")
  /\ r.pc \notin {"compile", "cc_run"}
  /\ r.status = 0 /\ ~r.cc_stdout /\ r.cc_obj = "full"

\* file x is written to the end and holds the object of the compilation
CompleteObject(x) == x.ex /\ x.full /\ x.data = ObjData(hdr.ver)

\* both runs have missed and have started the compiler
BothCompile == \A p \in Procs : HasStep(run[p], "compile")

\* the cache entry of key k is complete: the object, and the stderr file if
\* there is one
CompleteEntry(f, k) ==
  /\ CompleteObject(f[cached_obj(k)])
  /\ f[cached_stderr(k)].ex => f[cached_stderr(k)].full

\* C34: when both runs of the compilation miss and compile, and no system
\* call fails and nothing is removed, every run whose compiler succeeded ends
\* with exit(0), with the complete object as its output, and leaves the
\* complete entry of its key in the cache; whatever the other run does in
\* between, the entry stays complete from the first store on.
C34_BothCompileBothServed ==
  [][\A p \in Procs :
       ( /\ NoFault'
         /\ BothCompile'
         /\ CompiledWell(run[p]) )
       => /\ run'[p].pc = "done"
            => /\ run'[p].exit = "served" /\ run'[p].code = 0
               /\ ~cfg["devnull"] => CompleteObject(fs'[output_obj(p)])
               /\ CompleteEntry(fs', run[p].cached_obj_hash)
          /\ CompleteObject(fs[cached_obj(run[p].cached_obj_hash)])
               => CompleteEntry(fs', run[p].cached_obj_hash)
    ]_vars

\* C34 witness: both runs missed, compiled while the other was under way,
\* stored their results and ended with exit(0); the entry is complete
C34_Witness ==
  /\ NoFault
  /\ BothCompile
  /\ \A p \in Procs :
       /\ run[p].pc = "done" /\ run[p].exit = "served"
       /\ cached_obj(ObjKey(0)) \in run[p].wrote
       /\ CompleteObject(fs[output_obj(p)])
  /\ CompleteEntry(fs, ObjKey(0))

====
